---- MODULE Spec2Model ----
(***************************************************************************)
(* The standalone package.json validation script (src/unnamed/part_001):   *)
(* its matcher set expect(), its runner test(), the fixed sequence of      *)
(* checks it performs on the parsed manifest, and its summary and exit     *)
(* status.                                                                 *)
(*                                                                         *)
(* JavaScript strings are TLA+ strings (Len, \o and SubSeq act on them).   *)
(* Every other JavaScript value is a record [t, v]: t is the kind of the   *)
(* value and v its payload.  Objects, arrays and functions carry a         *)
(* reference ref, which is what === compares.                              *)
(***************************************************************************)
EXTENDS Integers, Sequences, FiniteSets, TLC

VARIABLES
  pc,                 \* position of the script: "load", "run", "summary", "exit", "exited", "crashed"
  fileSystem,         \* what fs.readFileSync finds at packageJsonPath
  packageJsonContent, \* the text read from the file (line 109)
  packageJson,        \* the parsed manifest (line 110)
  stmt,               \* index into Script of the next top-level statement
  passCount,          \* line 11
  failCount,          \* line 12
  failures,           \* line 13
  output,             \* the lines written by console.log / console.error
  exitCode,           \* the argument of process.exit, or NoExit
  uncaught,           \* the error that ended the process, or NoThrow
  executed,           \* history: ids of the cases whose procedure has run, in order
  reads,              \* history: number of fs.readFileSync calls made
  called,             \* matcher call: the name of the matcher called, or "" before the call
  wrapped,            \* matcher call: the value handed to expect()
  argument,           \* matcher call: the argument handed to the matcher
  completion          \* matcher call: how the call completed

scriptVars == <<pc, fileSystem, packageJsonContent, packageJson, stmt, passCount,
                failCount, failures, output, exitCode, uncaught, executed, reads>>
matcherVars == <<called, wrapped, argument, completion>>
vars == <<scriptVars, matcherVars>>

-----------------------------------------------------------------------------
(* JavaScript values                                                       *)

Undefined == [t |-> "undefined", v |-> 0]
Null == [t |-> "null", v |-> 0]
NaN == [t |-> "NaN", v |-> 0]
Bool(b) == [t |-> "boolean", v |-> b]
Num(n) == [t |-> "number", v |-> n]
Str(s) == [t |-> "string", v |-> s]
\* elems: sequence of values
Arr(r, elems) == [t |-> "array", v |-> [ref |-> r, elems |-> elems]]
\* props: sequence of [key, val] in insertion order
Obj(r, props) == [t |-> "object", v |-> [ref |-> r, props |-> props]]
\* result: the completion of calling the function with no arguments
Fn(r, result) == [t |-> "function", v |-> [ref |-> r, result |-> result]]
\* a regular expression literal without flags: a sequence of atoms, each a
\* character class with a quantifier ("one", "star", "plus"), that may be
\* anchored at the start (^) and at the end ($); source is its text
RegExp(source, start, atoms, end) ==
  [t |-> "regexp", v |-> [ref |-> source, source |-> source, start |-> start,
                          atoms |-> atoms, end |-> end]]
Atom(cls, q) == [cls |-> cls, q |-> q]

(* Completions: a call either returns or throws an error (name, message).  *)
NoThrow == [threw |-> FALSE, name |-> "", message |-> ""]
Throw(n, m) == [threw |-> TRUE, name |-> n, message |-> m]
Error(m) == Throw("Error", m)
TypeError(m) == Throw("TypeError", m)

\* the first completion of a statement sequence that throws ends the sequence
RECURSIVE FirstThrow(_)
FirstThrow(rs) ==
  IF rs = <<>> THEN NoThrow
  ELSE IF Head(rs).threw THEN Head(rs) ELSE FirstThrow(Tail(rs))

-----------------------------------------------------------------------------
(* Strings                                                                 *)

CharAt(s, i) == SubSeq(s, i, i)
Chars(s) == {CharAt(s, i) : i \in 1..Len(s)}

\* String.prototype.includes
StringIncludes(s, sub) ==
  \E i \in 1..(Len(s) - Len(sub) + 1) : SubSeq(s, i, i + Len(sub) - 1) = sub

Digits == "0123456789"
DigitSet == Chars(Digits)
LowerSet == Chars("abcdefghijklmnopqrstuvwxyz")
UpperSet == Chars("ABCDEFGHIJKLMNOPQRSTUVWXYZ")
WhiteSpace == {" ", "\t", "\n", "\r", "\f"}

DigitValue(c) == CHOOSE d \in 0..9 : CharAt(Digits, d + 1) = c

RECURSIVE Join(_, _)
Join(strs, sep) ==
  IF strs = <<>> THEN ""
  ELSE IF Len(strs) = 1 THEN strs[1]
  ELSE strs[1] \o sep \o Join(Tail(strs), sep)

\* Number.prototype.toString of an integer
RECURSIVE NumberToString(_)
NumberToString(n) ==
  IF n < 0 THEN "-" \o NumberToString(0 - n)
  ELSE IF n < 10 THEN CharAt(Digits, n + 1)
  ELSE NumberToString(n \div 10) \o CharAt(Digits, (n % 10) + 1)

RECURSIVE DecimalValue(_)
DecimalValue(s) ==
  IF s = "" THEN 0
  ELSE 10 * DecimalValue(SubSeq(s, 1, Len(s) - 1)) + DigitValue(CharAt(s, Len(s)))

RECURSIVE TrimStart(_)
TrimStart(s) ==
  IF s # "" /\ CharAt(s, 1) \in WhiteSpace THEN TrimStart(SubSeq(s, 2, Len(s))) ELSE s

RECURSIVE TrimEnd(_)
TrimEnd(s) ==
  IF s # "" /\ CharAt(s, Len(s)) \in WhiteSpace
  THEN TrimEnd(SubSeq(s, 1, Len(s) - 1)) ELSE s

\* Number(s) of a string: white space is trimmed, the empty string is 0, a run of
\* decimal digits with an optional sign is its value, and any other text is NaN
\* (the forms with a fraction, an exponent or a radix prefix do not occur in the
\* component of a version that split('.') leaves)
StringToNumber(s) ==
  LET b == TrimEnd(TrimStart(s))
      signed == b # "" /\ CharAt(b, 1) \in {"+", "-"}
      d == IF signed THEN SubSeq(b, 2, Len(b)) ELSE b
  IN IF b = "" THEN Num(0)
     ELSE IF d # "" /\ Chars(d) \subseteq DigitSet
     THEN Num(IF CharAt(b, 1) = "-" THEN 0 - DecimalValue(d) ELSE DecimalValue(d))
     ELSE NaN

\* the longest prefix of s made of decimal digits
RECURSIVE DigitPrefix(_)
DigitPrefix(s) ==
  IF s # "" /\ CharAt(s, 1) \in DigitSet
  THEN CharAt(s, 1) \o DigitPrefix(SubSeq(s, 2, Len(s))) ELSE ""

\* parseInt(s) of a string: leading white space is skipped, then an optional sign
\* and the leading run of decimal digits are the value; without a digit the
\* result is NaN
parseInt(s) ==
  LET b == TrimStart(s)
      signed == b # "" /\ CharAt(b, 1) \in {"+", "-"}
      p == DigitPrefix(IF signed THEN SubSeq(b, 2, Len(b)) ELSE b)
  IN IF p = "" THEN NaN
     ELSE Num(IF CharAt(b, 1) = "-" THEN 0 - DecimalValue(p) ELSE DecimalValue(p))

\* String.prototype.split with a one-character separator
RECURSIVE Split(_, _)
Split(s, sep) ==
  IF \E i \in 1..Len(s) : CharAt(s, i) = sep
  THEN LET i == CHOOSE j \in 1..Len(s) :
                  CharAt(s, j) = sep /\ \A k \in 1..(j - 1) : CharAt(s, k) # sep
       IN <<SubSeq(s, 1, i - 1)>> \o Split(SubSeq(s, i + 1, Len(s)), sep)
  ELSE <<s>>

-----------------------------------------------------------------------------
(* JavaScript operators                                                    *)

IsPrimitive(val) == val.t \in {"undefined", "null", "NaN", "boolean", "number", "string"}
IsNullish(val) == val.t \in {"undefined", "null"}

\* ToBoolean: what !actual and (actual && ...) test
IsTruthy(val) ==
  CASE val.t \in {"undefined", "null", "NaN"} -> FALSE
    [] val.t = "boolean" -> val.v
    [] val.t = "number" -> val.v # 0
    [] val.t = "string" -> val.v # ""
    [] OTHER -> TRUE

\* a === b
StrictEquals(a, b) ==
  /\ a.t = b.t
  /\ CASE a.t \in {"undefined", "null"} -> TRUE
       [] a.t = "NaN" -> FALSE
       [] a.t \in {"boolean", "number", "string"} -> a.v = b.v
       [] OTHER -> a.v.ref = b.v.ref

\* SameValueZero, the comparison of Array.prototype.includes
SameValueZero(a, b) == (a.t = "NaN" /\ b.t = "NaN") \/ StrictEquals(a, b)

\* String(val): what a template literal interpolates for ${val}
RECURSIVE StringOf(_)
StringOf(val) ==
  CASE val.t = "undefined" -> "undefined"
    [] val.t = "null" -> "null"
    [] val.t = "NaN" -> "NaN"
    [] val.t = "boolean" -> IF val.v THEN "true" ELSE "false"
    [] val.t = "number" -> NumberToString(val.v)
    [] val.t = "string" -> val.v
    [] val.t = "array" ->
         Join([i \in 1..Len(val.v.elems) |->
                 IF IsNullish(val.v.elems[i]) THEN "" ELSE StringOf(val.v.elems[i])], ",")
    [] val.t = "object" -> "[object Object]"
    [] val.t = "regexp" -> "/" \o val.v.source \o "/"
    [] OTHER -> "() => {}"

\* ToNumber
ToNumber(val) ==
  CASE val.t = "undefined" -> NaN
    [] val.t = "null" -> Num(0)
    [] val.t = "NaN" -> NaN
    [] val.t = "boolean" -> IF val.v THEN Num(1) ELSE Num(0)
    [] val.t = "number" -> val
    [] OTHER -> StringToNumber(StringOf(val))

Ascii == " !\"#$%&'()*+,-./0123456789:;<=>?@ABCDEFGHIJKLMNOPQRSTUVWXYZ[\\]^_abcdefghijklmnopqrstuvwxyz{|}~"
CharCode(c) == CHOOSE i \in 1..Len(Ascii) : CharAt(Ascii, i) = c

\* s < u for two strings: by character code, a proper prefix first
RECURSIVE StringLess(_, _)
StringLess(s, u) ==
  IF u = "" THEN FALSE
  ELSE IF s = "" THEN TRUE
  ELSE IF CharAt(s, 1) = CharAt(u, 1)
       THEN StringLess(SubSeq(s, 2, Len(s)), SubSeq(u, 2, Len(u)))
       ELSE CharCode(CharAt(s, 1)) < CharCode(CharAt(u, 1))

\* ToPrimitive with hint number, as the relational operators apply it
ToPrimitive(val) == IF IsPrimitive(val) THEN val ELSE Str(StringOf(val))

\* a < b: two strings compare as strings, anything else as numbers, and a
\* comparison with NaN is false
LessThan(a, b) ==
  LET pa == ToPrimitive(a)
      pb == ToPrimitive(b)
  IN IF pa.t = "string" /\ pb.t = "string" THEN StringLess(pa.v, pb.v)
     ELSE LET na == ToNumber(pa)
              nb == ToNumber(pb)
          IN na.t = "number" /\ nb.t = "number" /\ na.v < nb.v

\* a <= b
LessThanOrEqual(a, b) ==
  LET pa == ToPrimitive(a)
      pb == ToPrimitive(b)
  IN IF pa.t = "string" /\ pb.t = "string" THEN ~StringLess(pb.v, pa.v)
     ELSE LET na == ToNumber(pa)
              nb == ToNumber(pb)
          IN na.t = "number" /\ nb.t = "number" /\ na.v <= nb.v

\* the escapes JSON.stringify applies inside a string
RECURSIVE EscapeString(_)
EscapeString(s) ==
  IF s = "" THEN ""
  ELSE LET c == CharAt(s, 1)
           e == CASE c = "\"" -> "\\\""
                  [] c = "\\" -> "\\\\"
                  [] c = "\n" -> "\\n"
                  [] c = "\t" -> "\\t"
                  [] c = "\r" -> "\\r"
                  [] c = "\f" -> "\\f"
                  [] OTHER -> c
       IN e \o EscapeString(SubSeq(s, 2, Len(s)))

Quote(s) == "\"" \o EscapeString(s) \o "\""

\* JSON.stringify(val): a string value, or undefined for undefined and functions.
\* An array writes null for an element that has no serialization; an object
\* leaves such a member out and writes the others in insertion order.
RECURSIVE JSONstringify(_)
JSONstringify(val) ==
  CASE val.t \in {"undefined", "function"} -> Undefined
    [] val.t \in {"null", "NaN"} -> Str("null")
    [] val.t \in {"boolean", "number"} -> Str(StringOf(val))
    [] val.t = "string" -> Str(Quote(val.v))
    [] val.t = "regexp" -> Str("{}")
    [] val.t = "array" ->
         Str("[" \o Join([i \in 1..Len(val.v.elems) |->
                            LET e == JSONstringify(val.v.elems[i])
                            IN IF e.t = "undefined" THEN "null" ELSE e.v], ",") \o "]")
    [] val.t = "object" ->
         LET kept == SelectSeq(val.v.props, LAMBDA p : JSONstringify(p.val).t # "undefined")
         IN Str("{" \o Join([i \in 1..Len(kept) |->
                              Quote(kept[i].key) \o ":" \o JSONstringify(kept[i].val).v], ",")
                \o "}")

\* own enumerable string keys in insertion order: Object.keys(val)
ObjectKeys(val) ==
  CASE val.t = "object" -> [i \in 1..Len(val.v.props) |-> val.v.props[i].key]
    [] val.t = "array" -> [i \in 1..Len(val.v.elems) |-> NumberToString(i - 1)]
    [] val.t = "string" -> [i \in 1..Len(val.v) |-> NumberToString(i - 1)]
    [] OTHER -> <<>>

Range(f) == {f[i] : i \in DOMAIN f}

\* the members every object inherits from Object.prototype
ObjectPrototypeKeys ==
  {"constructor", "hasOwnProperty", "isPrototypeOf", "propertyIsEnumerable",
   "toLocaleString", "toString", "valueOf", "__proto__"}

\* (prop in val) for an object, array or function: own or inherited
HasProperty(val, prop) ==
  \/ prop \in Range(ObjectKeys(val))
  \/ prop \in ObjectPrototypeKeys
  \/ val.t \in {"array", "function"} /\ prop = "length"

\* val[key] where val is not nullish: the own property, or undefined
GetProp(val, key) ==
  IF val.t = "object" /\ key \in Range(ObjectKeys(val))
  THEN (CHOOSE p \in Range(val.v.props) : p.key = key).val
  ELSE Undefined

\* the completion of evaluating val.key: reading a property of undefined or
\* null throws a TypeError
ReadProp(val, key) ==
  IF IsNullish(val)
  THEN TypeError("Cannot read properties of " \o StringOf(val)
                 \o " (reading '" \o key \o "')")
  ELSE NoThrow

\* the completion of looking up and calling a string method on val, where
\* expr is the source text of the receiver
CallStringMethod(val, method, expr) ==
  IF IsNullish(val) THEN ReadProp(val, method)
  ELSE IF val.t # "string" THEN TypeError(expr \o "." \o method \o " is not a function")
  ELSE NoThrow

-----------------------------------------------------------------------------
(* Regular expressions                                                     *)

\* the atoms of a run of literal characters
Literal(s) == [i \in 1..Len(s) |-> Atom({CharAt(s, i)}, "one")]

\* the atoms of re from the i-th on match s at position pos
RECURSIVE MatchFrom(_, _, _, _)
MatchFrom(re, i, s, pos) ==
  IF i > Len(re.atoms) THEN (~re.end \/ pos = Len(s) + 1)
  ELSE LET a == re.atoms[i]
           hit == pos <= Len(s) /\ CharAt(s, pos) \in a.cls
       IN CASE a.q = "one" -> hit /\ MatchFrom(re, i + 1, s, pos + 1)
            [] a.q = "star" -> \/ hit /\ MatchFrom(re, i, s, pos + 1)
                               \/ MatchFrom(re, i + 1, s, pos)
            [] a.q = "plus" -> hit /\ \/ MatchFrom(re, i, s, pos + 1)
                                      \/ MatchFrom(re, i + 1, s, pos + 1)

\* pattern.test(val): val is converted to a string and searched for a match
RegExpTest(pattern, val) ==
  LET s == StringOf(val)
  IN \E pos \in (IF pattern.v.start THEN {1} ELSE 1..(Len(s) + 1)) :
       MatchFrom(pattern.v, 1, s, pos)

NameChar == LowerSet \cup DigitSet \cup {"-", "~"}
NameCharRest == NameChar \cup {".", "_"}

\* /^@[a-z0-9-~][a-z0-9-._~]*\/[a-z0-9-~][a-z0-9-._~]*$/
scopedNamePattern ==
  RegExp("^@[a-z0-9-~][a-z0-9-._~]*\\/[a-z0-9-~][a-z0-9-._~]*$", TRUE,
         <<Atom({"@"}, "one"), Atom(NameChar, "one"), Atom(NameCharRest, "star"),
           Atom({"/"}, "one"), Atom(NameChar, "one"), Atom(NameCharRest, "star")>>, TRUE)

\* /^\d+\.\d+\.\d+$/
versionPattern ==
  RegExp("^\\d+\\.\\d+\\.\\d+$", TRUE,
         <<Atom(DigitSet, "plus"), Atom({"."}, "one"), Atom(DigitSet, "plus"),
           Atom({"."}, "one"), Atom(DigitSet, "plus")>>, TRUE)

\* /^[\^~]/
rangePrefixPattern == RegExp("^[\\^~]", TRUE, <<Atom({"^", "~"}, "one")>>, FALSE)

\* /^@coral-xyz\//
workspaceScopePattern == RegExp("^@coral-xyz\\/", TRUE, Literal("@coral-xyz/"), FALSE)

\* /^[._]/
leadingDotPattern == RegExp("^[._]", TRUE, <<Atom({".", "_"}, "one")>>, FALSE)

\* /[A-Z]/
upperCasePattern == RegExp("[A-Z]", FALSE, <<Atom(UpperSet, "one")>>, FALSE)

\* /\s/
whiteSpacePattern == RegExp("\\s", FALSE, <<Atom(WhiteSpace, "one")>>, FALSE)

\* s.replace(/^[\^~]/, ''): the pattern matches at most the first character
StripRangePrefix(s) ==
  IF RegExpTest(rangePrefixPattern, Str(s)) THEN SubSeq(s, 2, Len(s)) ELSE s

-----------------------------------------------------------------------------
(* The matcher set: expect(actual).<matcher>(argument)                     *)

toBe_comparesSerializedForms(actual, expected) ==
  IF ~StrictEquals(JSONstringify(actual), JSONstringify(expected))
  THEN Error("Expected " \o StringOf(JSONstringify(expected)) \o ", but got "
             \o StringOf(JSONstringify(actual)))
  ELSE NoThrow

\* lines 30-34
toBe(actual, expected) ==
  IF ~StrictEquals(actual, expected)
  THEN Error("Expected " \o StringOf(JSONstringify(expected)) \o ", but got "
             \o StringOf(JSONstringify(actual)))
  ELSE NoThrow

toMatch_missingNegation(actual, pattern) ==
  IF RegExpTest(pattern, actual)
  THEN Error("Expected " \o StringOf(JSONstringify(actual)) \o " to match "
             \o StringOf(pattern))
  ELSE NoThrow

\* lines 35-39
toMatch(actual, pattern) ==
  IF ~RegExpTest(pattern, actual)
  THEN Error("Expected " \o StringOf(JSONstringify(actual)) \o " to match "
             \o StringOf(pattern))
  ELSE NoThrow

toBeDefined(actual) ==
  IF actual.t = "undefined" THEN Error("Expected value to be defined") ELSE NoThrow

toHaveProperty_truthyMember(actual, prop) ==
  IF ~IsTruthy(actual) \/ ~IsTruthy(GetProp(actual, prop))
  THEN Error("Expected object to have property " \o prop)
  ELSE NoThrow

\* lines 45-49; (prop in actual) throws a TypeError when actual is a truthy primitive
toHaveProperty(actual, prop) ==
  IF ~IsTruthy(actual) THEN Error("Expected object to have property " \o prop)
  ELSE IF IsPrimitive(actual)
  THEN TypeError("Cannot use 'in' operator to search for '" \o prop \o "' in "
                 \o StringOf(actual))
  ELSE IF ~HasProperty(actual, prop)
  THEN Error("Expected object to have property " \o prop)
  ELSE NoThrow

toBeTruthy(actual) ==
  IF ~IsTruthy(actual)
  THEN Error("Expected " \o StringOf(JSONstringify(actual)) \o " to be truthy")
  ELSE NoThrow

toBeGreaterThan(actual, expected) ==
  IF LessThanOrEqual(actual, expected)
  THEN Error("Expected " \o StringOf(actual) \o " to be greater than "
             \o StringOf(expected))
  ELSE NoThrow

toBeGreaterThanOrEqual_rejectsNaN(actual, expected) ==
  IF ~LessThanOrEqual(expected, actual)
  THEN Error("Expected " \o StringOf(actual) \o " to be greater than or equal to "
             \o StringOf(expected))
  ELSE NoThrow

toBeGreaterThanOrEqual(actual, expected) ==
  IF LessThan(actual, expected)
  THEN Error("Expected " \o StringOf(actual) \o " to be greater than or equal to "
             \o StringOf(expected))
  ELSE NoThrow

toEqual(actual, expected) ==
  IF ~StrictEquals(JSONstringify(actual), JSONstringify(expected))
  THEN Error("Expected " \o StringOf(JSONstringify(expected)) \o ", but got "
             \o StringOf(JSONstringify(actual)))
  ELSE NoThrow

\* actual(): calling what is not a function throws a TypeError
Call(actual) ==
  IF actual.t = "function" THEN actual.v.result
  ELSE TypeError("actual is not a function")

notToThrow(actual) ==
  IF Call(actual).threw
  THEN Error("Expected function not to throw, but it threw: " \o Call(actual).message)
  ELSE NoThrow

notToMatch(actual, pattern) ==
  IF RegExpTest(pattern, actual)
  THEN Error("Expected " \o StringOf(JSONstringify(actual)) \o " not to match "
             \o StringOf(pattern))
  ELSE NoThrow

notToBeNull(actual) ==
  IF actual.t = "null" THEN Error("Expected value not to be null") ELSE NoThrow

notToBeUndefined(actual) ==
  IF actual.t = "undefined" THEN Error("Expected value not to be undefined") ELSE NoThrow

notToBe(actual, expected) ==
  IF StrictEquals(actual, expected)
  THEN Error("Expected not to be " \o StringOf(JSONstringify(expected)))
  ELSE NoThrow

\* actual.includes(item): of a string (item converted to a string), of an
\* array (by SameValueZero); any other truthy actual has no includes method
Includes(actual, item) ==
  CASE actual.t = "string" -> StringIncludes(actual.v, StringOf(item))
    [] actual.t = "array" -> \E e \in Range(actual.v.elems) : SameValueZero(e, item)
    [] OTHER -> FALSE

notToContain(actual, item) ==
  IF ~IsTruthy(actual) THEN NoThrow
  ELSE IF actual.t \notin {"string", "array"}
  THEN TypeError("actual.includes is not a function")
  ELSE IF Includes(actual, item)
  THEN Error("Expected array not to contain " \o StringOf(item))
  ELSE NoThrow

-----------------------------------------------------------------------------
(* The manifest file                                                       *)

Prop(key, val) == [key |-> key, val |-> val]

\* what the script and the Jest suite are written for: a manifest that passes
\* every check of both
BaseManifest ==
  Obj(1, <<
    Prop("name", Str("@coral-xyz/backpack-web")),
    Prop("version", Str("1.0.0")),
    Prop("private", Bool(TRUE)),
    Prop("scripts", Obj(2, <<
      Prop("dev", Str("next dev")),
      Prop("build", Str("next build")),
      Prop("start", Str("next start")),
      Prop("lint", Str("next lint")),
      Prop("lint:fix", Str("next lint --fix")),
      Prop("test", Str("jest"))>>)),
    Prop("dependencies", Obj(3, <<
      Prop("next", Str("^15.5.10")),
      Prop("react", Str("18.2.0")),
      Prop("react-dom", Str("18.2.0"))>>)),
    Prop("devDependencies", Obj(4, <<
      Prop("@headlessui/react", Str("^1.7.4")),
      Prop("@heroicons/react", Str("^2.0.13")),
      Prop("@jest/globals", Str("^29.7.0")),
      Prop("@tailwindcss/aspect-ratio", Str("^0.4.2")),
      Prop("@tailwindcss/forms", Str("^0.5.3")),
      Prop("@tailwindcss/typography", Str("^0.5.8")),
      Prop("@types/jest", Str("^29.5.11")),
      Prop("@types/node", Str("18.11.9")),
      Prop("@types/react", Str("18.0.25")),
      Prop("@types/react-dom", Str("18.0.9")),
      Prop("autoprefixer", Str("^10.4.13")),
      Prop("eslint", Str("8.28.0")),
      Prop("eslint-config-next", Str("^15.5.10")),
      Prop("eslint-config-prettier", Str("^8.5.0")),
      Prop("jest", Str("^29.7.0")),
      Prop("postcss", Str("^8.4.19")),
      Prop("prettier", Str("^2.8.0")),
      Prop("prettier-plugin-tailwindcss", Str("^0.2.0")),
      Prop("tailwindcss", Str("^3.2.4")),
      Prop("ts-jest", Str("^29.1.1")),
      Prop("typescript", Str("~4.9.5"))>>))>>)

Absent == [t |-> "absent", v |-> 0]

\* obj with its member key set to val (in place, or appended), or removed
SetProp(obj, key, val) ==
  LET props == obj.v.props
      has == \E i \in 1..Len(props) : props[i].key = key
  IN IF val = Absent
     THEN Obj(obj.v.ref, SelectSeq(props, LAMBDA q : q.key # key))
     ELSE IF has
     THEN Obj(obj.v.ref, [i \in 1..Len(props) |->
                            IF props[i].key = key THEN Prop(key, val) ELSE props[i]])
     ELSE Obj(obj.v.ref, Append(props, Prop(key, val)))

\* one way in which the file at hand departs from BaseManifest: the member key of
\* the top-level object (at = "") or of its member at is set to val or removed
Edit(at, key, val) == [at |-> at, key |-> key, val |-> val]

Edits == <<
  Edit("", "name", Str("@coral-xyz/other")),
  Edit("", "name", Str("Backpack Web")),
  Edit("", "name", Absent),
  Edit("", "version", Str("1.0")),
  Edit("", "private", Bool(FALSE)),
  Edit("", "scripts", Absent),
  Edit("", "dependencies", Absent),
  Edit("", "devDependencies", Absent),
  Edit("scripts", "test", Absent),
  Edit("scripts", "dev", Str("next dev --turbo")),
  Edit("scripts", "lint:fix", Str("eslint --fix .")),
  Edit("scripts", "build", Absent),
  Edit("dependencies", "next", Str("^15.4.0")),
  Edit("dependencies", "next", Str("15.5.10")),
  Edit("dependencies", "next", Str("^16.0.0")),
  Edit("dependencies", "next", Str("^15")),
  Edit("dependencies", "next", Absent),
  Edit("dependencies", "react", Str("18.1.0")),
  Edit("dependencies", "react", Str("")),
  Edit("dependencies", "jest", Str("^29.7.0")),
  Edit("devDependencies", "jest", Absent),
  Edit("devDependencies", "typescript", Absent),
  Edit("devDependencies", "tailwindcss", Absent),
  Edit("devDependencies", "eslint", Absent),
  Edit("devDependencies", "@tailwindcss/forms", Absent),
  Edit("devDependencies", "@heroicons/react", Absent),
  Edit("devDependencies", "react", Str("18.2.0"))>>

ApplyEdit(manifest, e) ==
  IF e.at = "" THEN SetProp(manifest, e.key, e.val)
  ELSE IF \E i \in 1..Len(manifest.v.props) : manifest.v.props[i].key = e.at
  THEN SetProp(manifest, e.at,
               SetProp((CHOOSE q \in Range(manifest.v.props) : q.key = e.at).val,
                       e.key, e.val))
  ELSE manifest

\* BaseManifest with the edits numbered in chosen applied in the order of Edits
RECURSIVE ApplyEdits(_, _, _)
ApplyEdits(manifest, chosen, i) ==
  IF i > Len(Edits) THEN manifest
  ELSE ApplyEdits(IF i \in chosen THEN ApplyEdit(manifest, Edits[i]) ELSE manifest,
                  chosen, i + 1)

\* the number of edits of one file is bounded
MaxEdits == 2

\* the sets of at most n edit numbers
RECURSIVE EditSets(_)
EditSets(n) ==
  IF n = 0 THEN {{}}
  ELSE LET fewer == EditSets(n - 1)
       IN fewer \cup {c \cup {i} : c \in fewer, i \in 1..Len(Edits)}

Manifests == {ApplyEdits(BaseManifest, chosen, 1) : chosen \in EditSets(MaxEdits)}

\* The file at packageJsonPath: missing, or a text.  A text is held as what
\* JSON.parse makes of it: a syntax error, or the value it denotes.
NoFile == [exists |-> FALSE, wellFormed |-> FALSE, value |-> Undefined]
BadText == [exists |-> TRUE, wellFormed |-> FALSE, value |-> Undefined]
Text(val) == [exists |-> TRUE, wellFormed |-> TRUE, value |-> val]

\* the files at the path: none, an unparseable text, a JSON text that is not
\* an object (null, a number, a string, a boolean, an array), or a manifest
Files ==
  {NoFile, BadText, Text(Null), Text(Num(5)), Text(Str("next")), Text(Bool(TRUE)),
   Text(Arr(1, <<>>))}
    \cup {Text(m) : m \in Manifests}

\* fs.readFileSync(packageJsonPath, 'utf-8')
ReadFileSync(file) ==
  IF file.exists THEN NoThrow
  ELSE Throw("Error", "ENOENT: no such file or directory, open 'package.json'")

\* JSON.parse(text)
JSONparse(text) ==
  IF text.wellFormed THEN NoThrow
  ELSE Throw("SyntaxError", "Unexpected end of JSON input")

-----------------------------------------------------------------------------
(* The checks of the script.  Each is the completion of the procedure      *)
(* handed to test(): the first statement that throws ends it.  pj is the   *)
(* parsed manifest packageJson.                                            *)

\* Object.values(val) in the order of Object.keys(val)
ObjectValues(val) ==
  CASE val.t = "object" -> [i \in 1..Len(val.v.props) |-> val.v.props[i].val]
    [] val.t = "array" -> val.v.elems
    [] val.t = "string" -> [i \in 1..Len(val.v) |-> Str(CharAt(val.v, i))]
    [] OTHER -> <<>>

\* val || {}
OrEmptyObject(val) == IF IsTruthy(val) THEN val ELSE Obj(0, <<>>)

\* nextVersion.replace(/^[\^~]/, '').split('.') once nextVersion is known to be a string
CleanVersionParts(nextVersion) ==
  IF nextVersion.t = "string" THEN Split(StripRangePrefix(nextVersion.v), ".") ELSE <<>>

\* the i-th target of the destructuring [major, minor, patch] = parts.map(Number)
Component(parts, i) == IF i <= Len(parts) THEN StringToNumber(parts[i]) ELSE Undefined

\* lines 174-184: the step-wise comparison with 15.5.10
versionAtLeast(nextVersion) ==
  LET parts == CleanVersionParts(nextVersion)
      major == Component(parts, 1)
      minor == Component(parts, 2)
      patch == Component(parts, 3)
  IN FirstThrow(<<
       CallStringMethod(nextVersion, "replace", "nextVersion"),
       toBeGreaterThanOrEqual(major, Num(15)),
       IF StrictEquals(major, Num(15))
       THEN FirstThrow(<<
              toBeGreaterThanOrEqual(minor, Num(5)),
              IF StrictEquals(minor, Num(5))
              THEN toBeGreaterThanOrEqual(patch, Num(10)) ELSE NoThrow>>)
       ELSE NoThrow>>)

\* line 232
isVulnerable(major, minor, patch) ==
  \/ LessThan(major, Num(15))
  \/ StrictEquals(major, Num(15)) /\ LessThan(minor, Num(5))
  \/ StrictEquals(major, Num(15)) /\ StrictEquals(minor, Num(5)) /\ LessThan(patch, Num(10))

\* lines 229-233
notVulnerable(nextVersion) ==
  LET parts == CleanVersionParts(nextVersion)
  IN FirstThrow(<<
       CallStringMethod(nextVersion, "replace", "nextVersion"),
       toBe(Bool(isVulnerable(Component(parts, 1), Component(parts, 2),
                              Component(parts, 3))), Bool(FALSE))>>)

\* lines 294-296
majorIs15(nextVersion) ==
  LET parts == CleanVersionParts(nextVersion)
  IN FirstThrow(<<
       CallStringMethod(nextVersion, "replace", "nextVersion"),
       toBe(IF parts = <<>> THEN NaN ELSE parseInt(parts[1]), Num(15))>>)

HaveProperties_reportsLast(obj, keys) ==
  FirstThrow([i \in 1..Len(keys) |-> toHaveProperty(obj, keys[Len(keys) + 1 - i])])

\* expect(obj).toHaveProperty(key) for each key in turn
HaveProperties(obj, keys) == FirstThrow([i \in 1..Len(keys) |-> toHaveProperty(obj, keys[i])])

\* line 116
case01(content) == notToThrow(Fn(0, JSONparse(content)))

\* line 120
case02(pj) ==
  FirstThrow(<<ReadProp(pj, "name"),
               toBe(GetProp(pj, "name"), Str("@coral-xyz/backpack-web")),
               toMatch(GetProp(pj, "name"), scopedNamePattern)>>)

\* line 125
case03(pj) ==
  FirstThrow(<<ReadProp(pj, "version"),
               toBe(GetProp(pj, "version"), Str("1.0.0")),
               toMatch(GetProp(pj, "version"), versionPattern)>>)

\* line 130
case04(pj) ==
  FirstThrow(<<ReadProp(pj, "private"), toBe(GetProp(pj, "private"), Bool(TRUE))>>)

\* line 134
case05(pj) ==
  HaveProperties(pj, <<"name", "version", "scripts", "dependencies", "devDependencies">>)

\* line 144
case06(pj) ==
  FirstThrow(<<ReadProp(pj, "scripts"),
               toBeDefined(GetProp(pj, "scripts")),
               HaveProperties(GetProp(pj, "scripts"),
                              <<"dev", "build", "start", "lint", "lint:fix", "test">>)>>)

\* line 154
case07(pj) ==
  LET scripts == GetProp(pj, "scripts")
  IN FirstThrow(<<ReadProp(pj, "scripts"), ReadProp(scripts, "dev"),
                  toBe(GetProp(scripts, "dev"), Str("next dev")),
                  toBe(GetProp(scripts, "build"), Str("next build")),
                  toBe(GetProp(scripts, "start"), Str("next start"))>>)

\* line 160
case08(pj) ==
  LET scripts == GetProp(pj, "scripts")
  IN FirstThrow(<<ReadProp(pj, "scripts"), ReadProp(scripts, "lint"),
                  toBe(GetProp(scripts, "lint"), Str("next lint")),
                  toBe(GetProp(scripts, "lint:fix"), Str("next lint --fix"))>>)

\* line 167
case09(pj) ==
  FirstThrow(<<ReadProp(pj, "dependencies"),
               HaveProperties(GetProp(pj, "dependencies"), <<"next", "react", "react-dom">>)>>)

\* line 173
case10(pj) ==
  LET deps == GetProp(pj, "dependencies")
  IN FirstThrow(<<ReadProp(pj, "dependencies"), ReadProp(deps, "next"),
                  versionAtLeast(GetProp(deps, "next"))>>)

\* line 187
case11(pj) ==
  LET deps == GetProp(pj, "dependencies")
  IN FirstThrow(<<ReadProp(pj, "dependencies"), ReadProp(deps, "react"),
                  toBe(GetProp(deps, "react"), Str("18.2.0")),
                  toBe(GetProp(deps, "react-dom"), Str("18.2.0"))>>)

\* line 192
case12(pj) ==
  LET depKeys == ObjectKeys(OrEmptyObject(GetProp(pj, "dependencies")))
      devDepKeys == ObjectKeys(OrEmptyObject(GetProp(pj, "devDependencies")))
      duplicates == SelectSeq(depKeys, LAMBDA dep : dep \in Range(devDepKeys))
  IN FirstThrow(<<ReadProp(pj, "dependencies"),
                  toEqual(Arr(0, [i \in 1..Len(duplicates) |-> Str(duplicates[i])]),
                          Arr(-1, <<>>))>>)

\* expect(packageJson.devDependencies).toHaveProperty(key) for each key in turn
DevDependenciesHave(pj, keys) ==
  FirstThrow(<<ReadProp(pj, "devDependencies"),
               HaveProperties(GetProp(pj, "devDependencies"), keys)>>)

\* line 201
case13(pj) ==
  DevDependenciesHave(pj, <<"@types/react", "@types/react-dom", "@types/node", "typescript">>)

\* line 208
case14(pj) == DevDependenciesHave(pj, <<"jest", "ts-jest", "@jest/globals", "@types/jest">>)

\* line 215
case15(pj) == DevDependenciesHave(pj, <<"tailwindcss", "postcss", "autoprefixer">>)

\* line 221
case16(pj) == DevDependenciesHave(pj, <<"eslint", "prettier">>)

\* line 228
case17(pj) ==
  LET deps == GetProp(pj, "dependencies")
  IN FirstThrow(<<ReadProp(pj, "dependencies"), ReadProp(deps, "next"),
                  notVulnerable(GetProp(deps, "next"))>>)

\* line 236
case18(pj) ==
  LET deps == GetProp(pj, "dependencies")
  IN FirstThrow(<<ReadProp(pj, "dependencies"), ReadProp(deps, "next"),
                  toMatch(GetProp(deps, "next"), rangePrefixPattern)>>)

case19_pinnedVersion(pj) ==
  LET deps == GetProp(pj, "dependencies")
  IN FirstThrow(<<ReadProp(pj, "dependencies"), ReadProp(deps, "react"),
                  toBe(GetProp(deps, "react"), Str("18.2.0")),
                  toBe(GetProp(deps, "react-dom"), Str("18.2.0"))>>)

\* line 243
case19(pj) ==
  LET deps == GetProp(pj, "dependencies")
  IN FirstThrow(<<ReadProp(pj, "dependencies"), ReadProp(deps, "react"),
                  toBe(GetProp(deps, "react"), GetProp(deps, "react-dom"))>>)

\* line 251
case20(pj) ==
  FirstThrow(<<ReadProp(pj, "name"), toMatch(GetProp(pj, "name"), workspaceScopePattern)>>)

\* line 255
case21(pj) ==
  FirstThrow(<<ReadProp(pj, "private"), toBe(GetProp(pj, "private"), Bool(TRUE))>>)

\* line 261
case22(pj) ==
  LET versions == ObjectValues(OrEmptyObject(GetProp(pj, "dependencies")))
  IN FirstThrow(<<ReadProp(pj, "dependencies"),
                  FirstThrow([i \in 1..Len(versions) |->
                                FirstThrow(<<notToBeNull(versions[i]),
                                             notToBeUndefined(versions[i]),
                                             notToBe(versions[i], Str(""))>>)])>>)

\* line 269
case23(pj) ==
  FirstThrow(<<ReadProp(pj, "name"),
               notToMatch(GetProp(pj, "name"), leadingDotPattern),
               notToMatch(GetProp(pj, "name"), upperCasePattern),
               notToMatch(GetProp(pj, "name"), whiteSpacePattern)>>)

testRelatedPackages == <<"jest", "mocha", "chai">>

\* line 275
case24(pj) ==
  LET prodDeps == ObjectKeys(OrEmptyObject(GetProp(pj, "dependencies")))
  IN FirstThrow(<<ReadProp(pj, "dependencies"),
                  FirstThrow([i \in 1..Len(testRelatedPackages) |->
                     IF \E dep \in Range(prodDeps) : StringIncludes(dep, testRelatedPackages[i])
                     THEN Error("Found test dependency " \o testRelatedPackages[i]
                                \o " in production dependencies")
                     ELSE NoThrow])>>)

\* line 288
case25(pj) ==
  LET scripts == GetProp(pj, "scripts")
  IN FirstThrow(<<ReadProp(pj, "scripts"), ReadProp(scripts, "build"),
                  toBeDefined(GetProp(scripts, "build")),
                  toBeDefined(GetProp(scripts, "start"))>>)

\* line 293
case26(pj) ==
  LET deps == GetProp(pj, "dependencies")
  IN FirstThrow(<<ReadProp(pj, "dependencies"), ReadProp(deps, "next"),
                  majorIs15(GetProp(deps, "next"))>>)

\* line 299
case27(pj) ==
  DevDependenciesHave(pj, <<"@tailwindcss/aspect-ratio", "@tailwindcss/forms",
                            "@tailwindcss/typography">>)

\* line 310
case28(pj) == DevDependenciesHave(pj, <<"@headlessui/react", "@heroicons/react">>)

-----------------------------------------------------------------------------
(* The script: its top-level statements in source order                    *)

Log(text) == [kind |-> "log", id |-> 0, text |-> text]
Test(id, description) == [kind |-> "test", id |-> id, text |-> description]

Script == <<
  Log("\n=== Running web/package.json validation tests ===\n"),
  Log("Structure and Validity:"),
  Test(1, "should be valid JSON"),
  Test(2, "should have a valid name field"),
  Test(3, "should have a valid version field"),
  Test(4, "should be marked as private"),
  Test(5, "should have all required top-level fields"),
  Log("\nScripts:"),
  Test(6, "should define all necessary npm scripts"),
  Test(7, "should have valid Next.js script commands"),
  Test(8, "should have valid lint script commands"),
  Log("\nDependencies:"),
  Test(9, "should have required production dependencies"),
  Test(10, "should use Next.js 15.5.10 or higher to fix vulnerability"),
  Test(11, "should have React 18.2.0 pinned"),
  Test(12, "should not have duplicate dependencies"),
  Log("\nDevDependencies:"),
  Test(13, "should include essential Next.js and React dev dependencies"),
  Test(14, "should include Jest test dependencies"),
  Test(15, "should include Tailwind CSS and plugins"),
  Test(16, "should include ESLint and Prettier"),
  Log("\nSecurity and Vulnerability Fixes:"),
  Test(17, "should not use vulnerable Next.js versions"),
  Test(18, "should use caret or greater for Next.js for security patches"),
  Log("\nDependency Version Consistency:"),
  Test(19, "should use consistent React versions"),
  Log("\nWorkspace Compatibility:"),
  Test(20, "should use scoped package name"),
  Test(21, "should be compatible with monorepo"),
  Log("\nEdge Cases and Validations:"),
  Test(22, "should not have nullish dependencies"),
  Test(23, "should validate package name format"),
  Test(24, "should not include test deps in production"),
  Log("\nRegression Tests:"),
  Test(25, "should maintain backward compatibility"),
  Test(26, "should be on Next.js 15"),
  Test(27, "should preserve Tailwind plugins"),
  Test(28, "should maintain HeadlessUI and Heroicons")>>

\* testFn(): the completion of the procedure of the case numbered id
RunProcedure(id, pj, content) ==
  CASE id = 1 -> case01(content)
    [] id = 2 -> case02(pj)
    [] id = 3 -> case03(pj)
    [] id = 4 -> case04(pj)
    [] id = 5 -> case05(pj)
    [] id = 6 -> case06(pj)
    [] id = 7 -> case07(pj)
    [] id = 8 -> case08(pj)
    [] id = 9 -> case09(pj)
    [] id = 10 -> case10(pj)
    [] id = 11 -> case11(pj)
    [] id = 12 -> case12(pj)
    [] id = 13 -> case13(pj)
    [] id = 14 -> case14(pj)
    [] id = 15 -> case15(pj)
    [] id = 16 -> case16(pj)
    [] id = 17 -> case17(pj)
    [] id = 18 -> case18(pj)
    [] id = 19 -> case19(pj)
    [] id = 20 -> case20(pj)
    [] id = 21 -> case21(pj)
    [] id = 22 -> case22(pj)
    [] id = 23 -> case23(pj)
    [] id = 24 -> case24(pj)
    [] id = 25 -> case25(pj)
    [] id = 26 -> case26(pj)
    [] id = 27 -> case27(pj)
    [] id = 28 -> case28(pj)

\* the check mark and the ballot x of the outcome lines, written in ASCII
CheckMark == "(U+2713)"
BallotX == "(U+2717)"

\* one call of console.log (stdout) or console.error (stderr)
Stdout(text) == [stream |-> "stdout", text |-> text]
Stderr(text) == [stream |-> "stderr", text |-> text]

Init ==
  /\ pc = "load"
  /\ fileSystem \in Files
  /\ packageJsonContent = NoFile
  /\ packageJson = Undefined
  /\ stmt = 1
  /\ passCount = 0
  /\ failCount = 0
  /\ failures = <<>>
  /\ output = <<>>
  /\ exitCode = <<>>
  /\ uncaught = NoThrow
  /\ executed = <<>>
  /\ reads = 0
  /\ called = ""
  /\ wrapped = Undefined
  /\ argument = Undefined
  /\ completion = NoThrow

LoadCompletion_parseErrorSwallowed(file) == ReadFileSync(file)

\* lines 108-110: the read, then the parse, with no handler around them
LoadCompletion(file) == FirstThrow(<<ReadFileSync(file), JSONparse(file)>>)

\* lines 108-110, when neither the read nor the parse throws
LoadManifest ==
  /\ pc = "load"
  /\ ~LoadCompletion(fileSystem).threw
  /\ reads' = reads + 1
  /\ packageJsonContent' = fileSystem
  /\ packageJson' = fileSystem.value
  /\ pc' = "run"
  /\ UNCHANGED <<fileSystem, stmt, passCount, failCount, failures, output, exitCode,
                 uncaught, executed, matcherVars>>

\* lines 108-110, when the read or the parse throws: nothing catches the error,
\* and the process ends with the status of an uncaught exception
LoadFails ==
  /\ pc = "load"
  /\ LET thrown == LoadCompletion(fileSystem)
     IN /\ thrown.threw
        /\ uncaught' = thrown
        /\ output' = Append(output, Stderr("Uncaught " \o thrown.name \o ": "
                                           \o thrown.message))
  /\ reads' = reads + 1
  /\ packageJsonContent' = IF fileSystem.exists THEN fileSystem ELSE packageJsonContent
  /\ exitCode' = <<1>>
  /\ pc' = "crashed"
  /\ UNCHANGED <<fileSystem, packageJson, stmt, passCount, failCount, failures,
                 executed, matcherVars>>

\* a console.log statement between the cases (lines 112, 115, 143, ...)
LogStatement ==
  /\ pc = "run"
  /\ stmt <= Len(Script)
  /\ Script[stmt].kind = "log"
  /\ output' = Append(output, Stdout(Script[stmt].text))
  /\ stmt' = stmt + 1
  /\ UNCHANGED <<pc, fileSystem, packageJsonContent, packageJson, passCount, failCount,
                 failures, exitCode, uncaught, executed, reads, matcherVars>>

Catches_assertionsOnly(error) == error.name = "Error"

\* line 20: catch (error) takes whatever the procedure throws
Catches(error) == TRUE

passCountAfter_countsEveryCase(error, count) == count + 1

\* line 18: passCount++ is reached when testFn() returns
passCountAfter(error, count) == IF error.threw THEN count ELSE count + 1

failCountAfter_countsTwice(error, count) == IF error.threw THEN count + 2 ELSE count

\* line 21: failCount++ in the catch branch
failCountAfter(error, count) == IF error.threw THEN count + 1 ELSE count

OutcomeLines_oneLine(description, error) ==
  IF ~error.threw THEN <<Stdout(CheckMark \o " " \o description)>>
  ELSE <<Stderr(BallotX \o " " \o description \o ": " \o error.message)>>

\* lines 19 and 23-24: what test() prints for a case whose procedure ended with
\* error (a completion that did not throw, or the error caught)
OutcomeLines(description, error) ==
  IF ~error.threw THEN <<Stdout(CheckMark \o " " \o description)>>
  ELSE <<Stderr(BallotX \o " " \o description), Stderr("  " \o error.message)>>

failuresAfter_newestFirst(list, description, error) ==
  <<[description |-> description, error |-> error.message]>> \o list

\* line 22: failures.push({ description, error: error.message })
failuresAfter(list, description, error) ==
  Append(list, [description |-> description, error |-> error.message])

FileReads_validJsonReadsAgain(id) == IF id = 1 THEN 1 ELSE 0

\* the calls of fs.readFileSync made by the procedure of the case numbered id:
\* none, the first case parses packageJsonContent again (line 117) and the
\* others only read members of packageJson
FileReads(id) == 0

testFnCalls_calledTwice(list, id) == list \o <<id, id>>

\* line 17: testFn() is called once, inside test(), before test() returns;
\* list holds the cases whose procedure has been called, in the order of the
\* calls
testFnCalls(list, id) == Append(list, id)

\* lines 15-26: test(description, testFn).  An error the catch clause did not
\* take would leave test() and, nothing else catching it, end the process.
test ==
  /\ pc = "run"
  /\ stmt <= Len(Script)
  /\ Script[stmt].kind = "test"
  /\ LET description == Script[stmt].text
         error == RunProcedure(Script[stmt].id, packageJson, packageJsonContent)
     IN /\ passCount' = passCountAfter(error, passCount)
        /\ IF ~error.threw
           THEN /\ output' = output \o OutcomeLines(description, error)
                /\ UNCHANGED <<failCount, failures, pc, uncaught, exitCode>>
           ELSE IF Catches(error)
           THEN /\ failCount' = failCountAfter(error, failCount)
                /\ failures' = failuresAfter(failures, description, error)
                /\ output' = output \o OutcomeLines(description, error)
                /\ UNCHANGED <<pc, uncaught, exitCode>>
           ELSE /\ uncaught' = error
                /\ output' = Append(output, Stderr("Uncaught " \o error.name \o ": "
                                                   \o error.message))
                /\ exitCode' = <<1>>
                /\ pc' = "crashed"
                /\ UNCHANGED <<failCount, failures>>
  /\ executed' = testFnCalls(executed, Script[stmt].id)
  /\ reads' = reads + FileReads(Script[stmt].id)
  /\ stmt' = stmt + 1
  /\ UNCHANGED <<fileSystem, packageJsonContent, packageJson, matcherVars>>

Total_passedOnly(passed, failed) == passed

\* line 319: passCount + failCount
Total(passed, failed) == passed + failed

\* lines 316-319
Summary ==
  /\ pc = "run"
  /\ stmt > Len(Script)
  /\ output' = output \o <<Stdout("\n=== Test Summary ==="),
                           Stdout(CheckMark \o " Passed: " \o NumberToString(passCount)),
                           Stdout(BallotX \o " Failed: " \o NumberToString(failCount)),
                           Stdout("Total: " \o NumberToString(Total(passCount, failCount)))>>
  /\ pc' = "exit"
  /\ UNCHANGED <<fileSystem, packageJsonContent, packageJson, stmt, passCount, failCount,
                 failures, exitCode, uncaught, executed, reads, matcherVars>>

AnyFailed_moreThanOne(count) == count > 1

\* line 321: if (failCount > 0)
AnyFailed(count) == count > 0

\* lines 321-326
ExitFailure ==
  /\ pc = "exit"
  /\ AnyFailed(failCount)
  /\ output' = output \o <<Stdout("\nFailures:")>>
                 \o [i \in 1..Len(failures) |->
                       Stdout("  - " \o failures[i].description \o ": " \o failures[i].error)]
  /\ exitCode' = <<1>>
  /\ pc' = "exited"
  /\ UNCHANGED <<fileSystem, packageJsonContent, packageJson, stmt, passCount, failCount,
                 failures, uncaught, executed, reads, matcherVars>>

\* lines 327-330
ExitSuccess ==
  /\ pc = "exit"
  /\ ~AnyFailed(failCount)
  /\ output' = Append(output, Stdout("\n" \o CheckMark \o " All tests passed!"))
  /\ exitCode' = <<0>>
  /\ pc' = "exited"
  /\ UNCHANGED <<fileSystem, packageJsonContent, packageJson, stmt, passCount, failCount,
                 failures, uncaught, executed, reads, matcherVars>>

Next ==
  \/ LoadManifest
  \/ LoadFails
  \/ LogStatement
  \/ test
  \/ Summary
  \/ ExitFailure
  \/ ExitSuccess

Spec == Init /\ [][Next]_vars

-----------------------------------------------------------------------------
(* Properties of a run of the script                                       *)

\* the ids of the cases of the script, in source order
CaseIds == [i \in 1..Len(SelectSeq(Script, LAMBDA st : st.kind = "test")) |->
              SelectSeq(Script, LAMBDA st : st.kind = "test")[i].id]

\* the case numbered id throws on the manifest that was loaded
Throws(id) == RunProcedure(id, packageJson, packageJsonContent).threw

\* N, the number of cases executed, and M, the number of them that threw
ExecutedCount == Len(executed)
ThrownCount == Cardinality({i \in 1..Len(executed) : Throws(executed[i])})

Loaded == pc \in {"run", "exit", "exited"}
Finished == pc \in {"exit", "exited"}

\* C1: once the manifest has loaded, with N cases executed through test() of
\* which M threw, passCount = N - M and failCount = M, at the end of the run
\* as at every point before it.
C1_Counters ==
  Loaded => /\ passCount = ExecutedCount - ThrownCount
            /\ failCount = ThrownCount

C1_Witness ==
  /\ pc = "exited"
  /\ ThrownCount >= 2
  /\ ExecutedCount - ThrownCount >= 2
  /\ failCount = ThrownCount

\* C2: when the manifest has loaded, the script ends in process.exit: with 1
\* exactly when failCount > 0, that is when some case failed, with 0 exactly
\* when none did, and with no other code; before that no exit code is set.
C2_ExitCode ==
  /\ pc = "exited" =>
       /\ exitCode \in {<<0>>, <<1>>}
       /\ exitCode = <<1>> <=> failCount > 0
       /\ exitCode = <<1>> <=> \E i \in 1..Len(executed) : Throws(executed[i])
       /\ exitCode = <<0>> <=> failCount = 0
  /\ pc \in {"load", "run", "exit"} => exitCode = <<>>
  /\ pc = "exit" => ENABLED (ExitFailure \/ ExitSuccess)

C2_Witness == pc = "exited" /\ exitCode = <<1>> /\ failCount = 1

\* C3: an error thrown inside a case is caught by test() and recorded as the
\* failure of that case only: it ends neither the run nor the cases after it.
\* Whatever has failed, the cases run so far are the first cases of the script
\* in source order, all of them once the run is finished, the failures
\* recorded are those of the cases that threw, and the process is ended by an
\* uncaught error only before the first case.
C3_FailureIsolated ==
  /\ Loaded => /\ uncaught = NoThrow
               /\ Len(executed) <= Len(CaseIds)
               /\ executed = SubSeq(CaseIds, 1, Len(executed))
               /\ Len(failures) = ThrownCount
  /\ Finished => executed = CaseIds
  /\ pc = "crashed" => executed = <<>>

C3_Witness ==
  /\ pc = "exited"
  /\ Throws(CaseIds[2])
  /\ ~Throws(CaseIds[Len(CaseIds)])
  /\ executed = CaseIds
  /\ failures # <<>>
  /\ failures[1].description = "should have a valid name field"

\* C4: when the manifest file cannot be read or cannot be parsed, the script
\* ends at once with the uncaught error: no case is executed, passCount and
\* failCount stay 0, nothing of the summary is printed, and the process.exit
\* calls that end the script are not reached.
C4_FatalLoadError ==
  (~fileSystem.exists \/ ~fileSystem.wellFormed) =>
    /\ pc \in {"load", "crashed"}
    /\ executed = <<>>
    /\ passCount = 0
    /\ failCount = 0
    /\ \A i \in 1..Len(output) : output[i].stream = "stderr"
    /\ pc = "crashed" => /\ uncaught.threw
                         /\ ~ENABLED Next

C4_Witness == pc = "crashed" /\ uncaught.name = "SyntaxError" /\ passCount = 0

-----------------------------------------------------------------------------
(* One call of a matcher, expect(wrapped).<called>(argument), on values    *)
(* drawn from bounded sets                                                 *)

MaxStringLength == 2
MaxNumber == 10
MaxArrayLength == 1
Copies == 2

StringAlphabet == {"x", "y", "^", "\""}
PropertyNames == {"k", "a", "toString"}

RECURSIVE StringsUpTo(_)
StringsUpTo(n) ==
  IF n = 0 THEN {""}
  ELSE LET shorter == StringsUpTo(n - 1)
       IN shorter \cup {s \o c : s \in shorter, c \in StringAlphabet}

RECURSIVE SeqsUpTo(_, _)
SeqsUpTo(S, n) ==
  IF n = 0 THEN {<<>>}
  ELSE LET shorter == SeqsUpTo(S, n - 1)
       IN shorter \cup {Append(q, e) : q \in shorter, e \in S}

\* an object, array or function allocated for a call: the reference tells apart
\* the copies of one shape
Ref(copy, shape) == [copy |-> copy, shape |-> shape]

PrimitiveInputs ==
  {Undefined, Null, NaN, Bool(TRUE), Bool(FALSE)}
    \cup {Num(n) : n \in (0 - 1)..MaxNumber}
    \cup {Str(s) : s \in StringsUpTo(MaxStringLength) \cup PropertyNames}

ArrayInputs ==
  {Arr(Ref(1, elems), elems) :
     elems \in SeqsUpTo({Str("x"), Undefined, Null, NaN}, MaxArrayLength)}

MemberValues == {Num(1), Undefined}

ObjectShapes ==
  {<<>>}
    \cup {<<Prop(k, val)>> : k \in {"a", "k"}, val \in MemberValues}
    \cup {<<Prop("a", val), Prop("k", w)>> : val \in MemberValues, w \in MemberValues}
    \cup {<<Prop("k", val), Prop("a", w)>> : val \in MemberValues, w \in MemberValues}

ObjectInputs == {Obj(Ref(c, props), props) : c \in 1..Copies, props \in ObjectShapes}

FunctionInputs ==
  {Fn(Ref(1, result), result) : result \in {NoThrow, Error("boom"), TypeError("x is not defined")}}

Values == PrimitiveInputs \cup ArrayInputs \cup ObjectInputs \cup FunctionInputs

\* /x/
xPattern == RegExp("x", FALSE, Literal("x"), FALSE)

\* /^x+y*$/
xyPattern == RegExp("^x+y*$", TRUE, <<Atom({"x"}, "plus"), Atom({"y"}, "star")>>, TRUE)

Patterns == {xPattern, xyPattern, rangePrefixPattern, upperCasePattern}

NumberArguments == {Num(n) : n \in (0 - 1)..MaxNumber}

MatcherInit ==
  /\ called = ""
  /\ wrapped \in Values
  /\ argument \in Values \cup Patterns
  /\ completion = NoThrow
  /\ pc = "load"
  /\ fileSystem = NoFile
  /\ packageJsonContent = NoFile
  /\ packageJson = Undefined
  /\ stmt = 1
  /\ passCount = 0
  /\ failCount = 0
  /\ failures = <<>>
  /\ output = <<>>
  /\ exitCode = <<>>
  /\ uncaught = NoThrow
  /\ executed = <<>>
  /\ reads = 0

Completes_recordsFailure(name, c) ==
  /\ called = ""
  /\ called' = name
  /\ completion' = c
  /\ failCount' = IF c.threw THEN failCount + 1 ELSE failCount
  /\ UNCHANGED <<wrapped, argument, pc, fileSystem, packageJsonContent, packageJson,
                 stmt, passCount, failures, output, exitCode, uncaught, executed, reads>>

\* the call ends with completion c; a matcher touches nothing else
Completes(name, c) ==
  /\ called = ""
  /\ called' = name
  /\ completion' = c
  /\ UNCHANGED <<wrapped, argument, scriptVars>>

Call_toBe == argument \in Values /\ Completes("toBe", toBe(wrapped, argument))

Call_toMatch == argument \in Patterns /\ Completes("toMatch", toMatch(wrapped, argument))

Call_toBeDefined == argument = Undefined /\ Completes("toBeDefined", toBeDefined(wrapped))

Call_toHaveProperty ==
  /\ argument \in {Str(k) : k \in PropertyNames}
  /\ Completes("toHaveProperty", toHaveProperty(wrapped, argument.v))

Call_toBeTruthy == argument = Undefined /\ Completes("toBeTruthy", toBeTruthy(wrapped))

Call_toBeGreaterThan ==
  /\ argument \in NumberArguments
  /\ Completes("toBeGreaterThan", toBeGreaterThan(wrapped, argument))

Call_toBeGreaterThanOrEqual ==
  /\ argument \in NumberArguments
  /\ Completes("toBeGreaterThanOrEqual", toBeGreaterThanOrEqual(wrapped, argument))

Call_toEqual == argument \in Values /\ Completes("toEqual", toEqual(wrapped, argument))

Call_notToThrow == argument = Undefined /\ Completes("not.toThrow", notToThrow(wrapped))

Call_notToMatch ==
  argument \in Patterns /\ Completes("not.toMatch", notToMatch(wrapped, argument))

Call_notToBeNull == argument = Undefined /\ Completes("not.toBeNull", notToBeNull(wrapped))

Call_notToBeUndefined ==
  argument = Undefined /\ Completes("not.toBeUndefined", notToBeUndefined(wrapped))

Call_notToBe == argument \in Values /\ Completes("not.toBe", notToBe(wrapped, argument))

Call_notToContain ==
  argument \in Values /\ Completes("not.toContain", notToContain(wrapped, argument))

MatcherNext ==
  \/ Call_toBe
  \/ Call_toMatch
  \/ Call_toBeDefined
  \/ Call_toHaveProperty
  \/ Call_toBeTruthy
  \/ Call_toBeGreaterThan
  \/ Call_toBeGreaterThanOrEqual
  \/ Call_toEqual
  \/ Call_notToThrow
  \/ Call_notToMatch
  \/ Call_notToBeNull
  \/ Call_notToBeUndefined
  \/ Call_notToBe
  \/ Call_notToContain

MatcherSpec == MatcherInit /\ [][MatcherNext]_vars

-----------------------------------------------------------------------------
(* Properties of the matcher set                                           *)

\* val is a JSON value: null, a boolean, a number, a string, or an array or
\* object made of JSON values
RECURSIVE IsJSON(_)
IsJSON(val) ==
  CASE val.t \in {"null", "boolean", "number", "string"} -> TRUE
    [] val.t = "array" -> \A i \in 1..Len(val.v.elems) : IsJSON(val.v.elems[i])
    [] val.t = "object" -> \A i \in 1..Len(val.v.props) : IsJSON(val.v.props[i].val)
    [] OTHER -> FALSE

\* C5: for JSON values a and b, expect(a).toBe(a) does not throw, and
\* expect(b).toBe(a) with b another value than a (another primitive, or another
\* object or array, whatever it holds) throws an error whose message contains
\* the JSON serialization of a and that of b.
C5_toBe ==
  (called = "toBe" /\ IsJSON(wrapped) /\ IsJSON(argument)) =>
    IF wrapped = argument THEN ~completion.threw
    ELSE /\ completion.threw
         /\ StringIncludes(completion.message, JSONstringify(argument).v)
         /\ StringIncludes(completion.message, JSONstringify(wrapped).v)

C5_Witness ==
  /\ called = "toBe"
  /\ wrapped.t = "object"
  /\ argument.t = "object"
  /\ wrapped.v.props = <<Prop("k", Num(1))>>
  /\ argument.v.props = <<Prop("k", Num(1))>>
  /\ wrapped.v.ref # argument.v.ref
  /\ completion.threw
  /\ completion.message = "Expected {\"k\":1}, but got {\"k\":1}"

\* key is an own member of the object val
HasOwn(val, key) ==
  val.t = "object" /\ \E i \in 1..Len(val.v.props) : val.v.props[i].key = key

\* C6: expect(x).toHaveProperty(key) throws when x is null or undefined and
\* when x is an object that lacks the key (it has no such member of its own and
\* inherits none from Object.prototype), and does not throw when x is an object
\* that has the key, whatever the value of the member.
C6_toHaveProperty ==
  called = "toHaveProperty" =>
    /\ IsNullish(wrapped) => completion.threw
    /\ (/\ wrapped.t = "object"
        /\ ~HasOwn(wrapped, argument.v)
        /\ argument.v \notin ObjectPrototypeKeys) => completion.threw
    /\ HasOwn(wrapped, argument.v) => ~completion.threw

C6_Witness ==
  /\ called = "toHaveProperty"
  /\ argument = Str("k")
  /\ wrapped.t = "object"
  /\ wrapped.v.props = <<Prop("k", Undefined)>>
  /\ ~completion.threw

\* what the patterns of the matcher calls accept, stated on the string
Accepts(pattern, s) ==
  CASE pattern = xPattern -> \E i \in 1..Len(s) : CharAt(s, i) = "x"
    [] pattern = xyPattern ->
         \E n \in 1..Len(s) : /\ \A i \in 1..n : CharAt(s, i) = "x"
                              /\ \A i \in (n + 1)..Len(s) : CharAt(s, i) = "y"
    [] pattern = rangePrefixPattern -> s # "" /\ CharAt(s, 1) \in {"^", "~"}
    [] pattern = upperCasePattern -> \E i \in 1..Len(s) : CharAt(s, i) \in UpperSet

\* C7: expect(s).toMatch(pattern) does not throw when the string s matches the
\* pattern, and when it does not it throws an error whose message contains s,
\* as JSON.stringify writes it, and the text of the pattern.
C7_toMatch ==
  (called = "toMatch" /\ wrapped.t = "string") =>
    IF Accepts(argument, wrapped.v) THEN ~completion.threw
    ELSE /\ completion.threw
         /\ StringIncludes(completion.message, Quote(wrapped.v))
         /\ StringIncludes(completion.message, "/" \o argument.v.source \o "/")

C7_Witness ==
  /\ called = "toMatch"
  /\ wrapped = Str("y")
  /\ argument = xPattern
  /\ completion.threw
  /\ completion.message = "Expected \"y\" to match /x/"

\* the actuals the checks hand to the numeric matchers: a number, the NaN of a
\* version component that is not numeric, the undefined of a missing one
NumericActual(val) == val.t \in {"number", "NaN", "undefined"}

\* C8: on every such actual, toBeGreaterThan(e) throws whenever actual is not
\* a number greater than e and toBeGreaterThanOrEqual(e) throws whenever actual
\* is not a number greater than or equal to e, with both operands in the message.
C8_NumericMatchersReject ==
  /\ (called = "toBeGreaterThan" /\ NumericActual(wrapped)) =>
       /\ ~(wrapped.t = "number" /\ wrapped.v > argument.v) => completion.threw
       /\ completion.threw => /\ StringIncludes(completion.message, StringOf(wrapped))
                              /\ StringIncludes(completion.message, StringOf(argument))
  /\ (called = "toBeGreaterThanOrEqual" /\ NumericActual(wrapped)) =>
       /\ ~(wrapped.t = "number" /\ wrapped.v >= argument.v) => completion.threw
       /\ completion.threw => /\ StringIncludes(completion.message, StringOf(wrapped))
                              /\ StringIncludes(completion.message, StringOf(argument))

\* deep equality as Jest's toEqual takes it: primitives by value (NaN equal to
\* NaN), arrays element by element, objects member by member whatever the order
\* of the members, a member that is undefined counting as absent
RECURSIVE DeepEqual(_, _)
DeepEqual(a, b) ==
  CASE a.t # b.t -> FALSE
    [] a.t \in {"undefined", "null", "NaN"} -> TRUE
    [] a.t \in {"boolean", "number", "string"} -> a.v = b.v
    [] a.t = "array" ->
         /\ Len(a.v.elems) = Len(b.v.elems)
         /\ \A i \in 1..Len(a.v.elems) : DeepEqual(a.v.elems[i], b.v.elems[i])
    [] a.t = "object" ->
         \A key \in Range(ObjectKeys(a)) \cup Range(ObjectKeys(b)) :
           DeepEqual(GetProp(a, key), GetProp(b, key))
    [] OTHER -> a.v.ref = b.v.ref

\* C9: expect(actual).toEqual(expected) succeeds exactly when actual and
\* expected are deeply equal, and otherwise throws with both serialized values
\* in the message.
C9_toEqualIsDeepEquality ==
  called = "toEqual" =>
    /\ ~completion.threw <=> DeepEqual(wrapped, argument)
    /\ completion.threw =>
         /\ StringIncludes(completion.message, StringOf(JSONstringify(argument)))
         /\ StringIncludes(completion.message, StringOf(JSONstringify(wrapped)))

\* C10: each negated matcher throws exactly when its positive check holds:
\* not.toBe when toBe would not throw, not.toMatch when toMatch would not throw,
\* not.toBeNull when actual is null, not.toBeUndefined when actual is undefined,
\* not.toContain when the string or array actual contains the item, not.toThrow
\* when the wrapped function throws.
C10_NegationInverts ==
  /\ called = "not.toBe" => (completion.threw <=> ~toBe(wrapped, argument).threw)
  /\ called = "not.toMatch" => (completion.threw <=> ~toMatch(wrapped, argument).threw)
  /\ called = "not.toBeNull" => (completion.threw <=> wrapped = Null)
  /\ called = "not.toBeUndefined" => (completion.threw <=> wrapped = Undefined)
  /\ (called = "not.toContain" /\ wrapped.t \in {"string", "array"}) =>
       (completion.threw <=> Includes(wrapped, argument))
  /\ (called = "not.toThrow" /\ wrapped.t = "function") =>
       (completion.threw <=> wrapped.v.result.threw)

-----------------------------------------------------------------------------
(* One run of one check on a manifest drawn from bounded sets: wrapped is  *)
(* the parsed manifest, argument tells how it was drawn, called names the  *)
(* check that ran and completion is how its procedure ended                *)

ComponentValues == {0, 4, 5, 6, 10, 14, 15, 16, 99, 100, 151, 200}
RangePrefixes == {"", "^", "~"}
MaxComponents == 3

\* the text of a version: the prefix, then the components joined by dots
VersionText(prefix, components) ==
  prefix \o Join([i \in 1..Len(components) |-> NumberToString(components[i])], ".")

\* a manifest whose only dependency is next
NextManifest(version) ==
  Obj(1, <<Prop("dependencies", Obj(2, <<Prop("next", Str(version))>>))>>)

VersionDraws ==
  {[kind |-> "version", prefix |-> x, components |-> c] :
     x \in RangePrefixes, c \in SeqsUpTo(ComponentValues, MaxComponents) \ {<<>>}}

\* what may stand between the dots of a version text: numbers, nothing, a word,
\* a number with a leading zero or a leading blank
TextComponents == {"15", "5", "10", "4", "", "x", "015", " 5"}
TextPrefixes == RangePrefixes \cup {">="}

\* the value of dependencies.next as a text of at most MaxComponents parts, any
\* of which may be empty or not a number
NextVersionDraws ==
  {[kind |-> "nextVersion", prefix |-> x, parts |-> q] :
     x \in TextPrefixes, q \in SeqsUpTo(TextComponents, MaxComponents) \ {<<>>}}

ReactVersions == {"18.2.0", "18.1.0", "^18.2.0", "18.2", ""}

\* a manifest whose dependencies are react and react-dom
ReactManifest(react, reactDom) ==
  Obj(1, <<Prop("dependencies",
                Obj(2, <<Prop("react", Str(react)), Prop("react-dom", Str(reactDom))>>))>>)

ReactDraws ==
  {[kind |-> "react", react |-> r, reactDom |-> d] : r \in ReactVersions, d \in ReactVersions}

DependencyNames == {"jest", "next", "react"}
MaxKeys == 2

\* the sequences of at most n names, none of them twice
RECURSIVE KeySeqs(_)
KeySeqs(n) ==
  IF n = 0 THEN {<<>>}
  ELSE LET shorter == KeySeqs(n - 1)
       IN shorter \cup {Append(q, k) : q \in shorter, k \in DependencyNames}

DistinctKeySeqs ==
  {q \in KeySeqs(MaxKeys) : \A i, j \in 1..Len(q) : q[i] = q[j] => i = j}

\* a mapping of the manifest: missing, or present with its keys in file order
Mappings ==
  {[present |-> FALSE, keys |-> <<>>]}
    \cup {[present |-> TRUE, keys |-> q] : q \in DistinctKeySeqs}

KeysDraws ==
  {[kind |-> "keys", dependencies |-> a, devDependencies |-> b] :
     a \in Mappings, b \in Mappings}

MappingProp(name, r, mapping) ==
  IF mapping.present
  THEN <<Prop(name, Obj(r, [i \in 1..Len(mapping.keys) |-> Prop(mapping.keys[i], Str("1.0.0"))]))>>
  ELSE <<>>

\* a manifest with the two mappings, each present or not
KeysManifest(dependencies, devDependencies) ==
  Obj(1, MappingProp("dependencies", 2, dependencies)
           \o MappingProp("devDependencies", 3, devDependencies))

MemberNames == {"name", "version"}
TextMemberValues == {Str("a"), Str("b")}
MaxMembers == 3

\* the text of a manifest as the members of its top-level object in file order,
\* where a key may be written more than once
TextDraws ==
  {[kind |-> "text", members |-> ms] :
     ms \in SeqsUpTo({Prop(k, x) : k \in MemberNames, x \in TextMemberValues}, MaxMembers)}

\* JSON.parse on the text of an object: a key written again takes the later
\* value and keeps the place of its first occurrence
RECURSIVE ParseMembers(_)
ParseMembers(members) ==
  IF members = <<>> THEN <<>>
  ELSE LET before == ParseMembers(SubSeq(members, 1, Len(members) - 1))
           member == members[Len(members)]
       IN IF \E i \in 1..Len(before) : before[i].key = member.key
          THEN [i \in 1..Len(before) |->
                  IF before[i].key = member.key THEN member ELSE before[i]]
          ELSE Append(before, member)

ManifestOf(draw) ==
  CASE draw.kind = "version" -> NextManifest(VersionText(draw.prefix, draw.components))
    [] draw.kind = "react" -> ReactManifest(draw.react, draw.reactDom)
    [] draw.kind = "keys" -> KeysManifest(draw.dependencies, draw.devDependencies)
    [] draw.kind = "text" -> Obj(1, ParseMembers(draw.members))
    [] draw.kind = "nextVersion" -> NextManifest(draw.prefix \o Join(draw.parts, "."))

CheckDraws == VersionDraws \cup ReactDraws \cup KeysDraws \cup TextDraws
                \cup NextVersionDraws

CheckInit ==
  /\ called = ""
  /\ argument \in CheckDraws
  /\ wrapped = ManifestOf(argument)
  /\ completion = NoThrow
  /\ pc = "load"
  /\ fileSystem = NoFile
  /\ packageJsonContent = NoFile
  /\ packageJson = Undefined
  /\ stmt = 1
  /\ passCount = 0
  /\ failCount = 0
  /\ failures = <<>>
  /\ output = <<>>
  /\ exitCode = <<>>
  /\ uncaught = NoThrow
  /\ executed = <<>>
  /\ reads = 0

\* the script's check 'should use Next.js 15.5.10 or higher to fix vulnerability'
Run_case10 ==
  /\ argument.kind = "version"
  /\ Completes("case10", case10(wrapped))

\* nextVersion.match(/[\d.]+/): the first longest run of digits and dots, as the
\* array of the match, or null when the text holds none
RECURSIVE VersionRun(_)
VersionRun(s) ==
  IF s # "" /\ CharAt(s, 1) \in DigitSet \cup {"."}
  THEN CharAt(s, 1) \o VersionRun(SubSeq(s, 2, Len(s))) ELSE ""

RECURSIVE MatchVersion(_)
MatchVersion(s) ==
  IF s = "" THEN Null
  ELSE IF CharAt(s, 1) \in DigitSet \cup {"."} THEN Arr(0, <<Str(VersionRun(s))>>)
  ELSE MatchVersion(SubSeq(s, 2, Len(s)))

\* a * b and a + b on numbers: NaN when an operand is not a number
Multiply(a, b) ==
  IF ToNumber(a).t = "number" /\ ToNumber(b).t = "number"
  THEN Num(ToNumber(a).v * ToNumber(b).v) ELSE NaN

Add(a, b) ==
  IF ToNumber(a).t = "number" /\ ToNumber(b).t = "number"
  THEN Num(ToNumber(a).v + ToNumber(b).v) ELSE NaN

\* Jest's toBeGreaterThanOrEqual: received must be a number, and the assertion
\* fails unless received >= expected (so it fails on NaN)
jest_toBeGreaterThanOrEqual(received, expected) ==
  IF received.t \notin {"number", "NaN"}
  THEN Error("Matcher error: received value must be a number or bigint")
  ELSE IF received.t = "number" /\ received.v >= expected.v THEN NoThrow
  ELSE Error("expect(received).toBeGreaterThanOrEqual(expected)")

versionNumber(major, minor, patch) ==
  Add(Add(Multiply(major, Num(10000)), Multiply(minor, Num(100))), patch)

minVersionNumber == Num(15 * 10000 + 5 * 100 + 10)

\* package.test.ts, it 'should maintain Next.js version at or above security fix
\* version'
maintainsSecurityFixVersion(pj) ==
  LET deps == GetProp(pj, "dependencies")
      nextVersion == GetProp(deps, "next")
      versionMatch == IF nextVersion.t = "string" THEN MatchVersion(nextVersion.v) ELSE Null
      parts == IF versionMatch.t = "array" THEN Split(versionMatch.v.elems[1].v, ".") ELSE <<>>
  IN FirstThrow(<<
       ReadProp(pj, "dependencies"),
       CallStringMethod(nextVersion, "match", "nextVersion"),
       IF versionMatch = Null
       THEN TypeError("Cannot read properties of null (reading '0')") ELSE NoThrow,
       jest_toBeGreaterThanOrEqual(
         versionNumber(Component(parts, 1), Component(parts, 2), Component(parts, 3)),
         minVersionNumber)>>)

Run_maintainsSecurityFixVersion ==
  /\ argument.kind = "version"
  /\ Completes("maintainsSecurityFixVersion", maintainsSecurityFixVersion(wrapped))

\* the script's check 'should use consistent React versions'
Run_case19 ==
  /\ argument.kind = "react"
  /\ Completes("case19", case19(wrapped))

\* Object.keys(val) as a call: a TypeError on undefined and null
ObjectKeysCall(val) ==
  IF IsNullish(val) THEN TypeError("Cannot convert undefined or null to object")
  ELSE NoThrow

\* Jest's toEqual: recursive equality of received and expected
jest_toEqual(received, expected) ==
  IF DeepEqual(received, expected) THEN NoThrow
  ELSE Error("expect(received).toEqual(expected) // deep equality")

\* package.test.ts, it 'should not have duplicate dependencies in dependencies
\* and devDependencies': the intersection of the two key sets
noDuplicatesBySet(pj) ==
  LET depKeys == ObjectKeys(GetProp(pj, "dependencies"))
      devDeps == Range(ObjectKeys(GetProp(pj, "devDependencies")))
      intersection == SelectSeq(depKeys, LAMBDA dep : dep \in devDeps)
  IN FirstThrow(<<
       ReadProp(pj, "dependencies"),
       ObjectKeysCall(GetProp(pj, "dependencies")),
       ObjectKeysCall(GetProp(pj, "devDependencies")),
       jest_toEqual(Arr(0, [i \in 1..Len(intersection) |-> Str(intersection[i])]),
                    Arr(-1, <<>>))>>)

\* the script's check 'should not have duplicate dependencies'
Run_case12 ==
  /\ argument.kind = "keys"
  /\ Completes("case12", case12(wrapped))

Run_noDuplicatesBySet ==
  /\ argument.kind = "keys"
  /\ Completes("noDuplicatesBySet", noDuplicatesBySet(wrapped))

\* Jest's toBeGreaterThan
jest_toBeGreaterThan(received, expected) ==
  IF received.t \notin {"number", "NaN"}
  THEN Error("Matcher error: received value must be a number or bigint")
  ELSE IF received.t = "number" /\ received.v > expected.v THEN NoThrow
  ELSE Error("expect(received).toBeGreaterThan(expected)")

\* package.test.ts, test 'should not have duplicate keys': parsed is what
\* JSON.parse made of the text
noDuplicateKeys(parsed) ==
  FirstThrow(<<
    ObjectKeysCall(parsed),
    jest_toBeGreaterThan(Num(Len(ObjectKeys(parsed))), Num(0))>>)

Run_noDuplicateKeys ==
  /\ argument.kind = "text"
  /\ Completes("noDuplicateKeys", noDuplicateKeys(wrapped))


-----------------------------------------------------------------------------
(* The Jest suite beside the script: describe 'web/package.json'           *)

\* Object.is(a, b)
ObjectIs(a, b) == (a.t = "NaN" /\ b.t = "NaN") \/ StrictEquals(a, b)

\* typeof val
TypeOf(val) ==
  CASE val.t = "undefined" -> "undefined"
    [] val.t \in {"number", "NaN"} -> "number"
    [] val.t = "boolean" -> "boolean"
    [] val.t = "string" -> "string"
    [] val.t = "function" -> "function"
    [] OTHER -> "object"

\* String.prototype.toLowerCase on the letters A to Z
RECURSIVE ToLowerCase(_)
ToLowerCase(s) ==
  IF s = "" THEN ""
  ELSE LET c == CharAt(s, 1)
           upper == "ABCDEFGHIJKLMNOPQRSTUVWXYZ"
           lower == "abcdefghijklmnopqrstuvwxyz"
       IN (IF c \in UpperSet
           THEN CharAt(lower, CHOOSE i \in 1..26 : CharAt(upper, i) = c)
           ELSE c) \o ToLowerCase(SubSeq(s, 2, Len(s)))

\* the text of val when it is a string, for the calls that follow a type check
TextOf(val) == IF val.t = "string" THEN val.v ELSE ""

\* the matchers of Jest's expect, each as the completion of the call: a failed
\* assertion and a matcher error both throw
jest_toBe(received, expected) ==
  IF ObjectIs(received, expected) THEN NoThrow
  ELSE Error("expect(received).toBe(expected) // Object.is equality")

jest_notToBe(received, expected) ==
  IF ObjectIs(received, expected)
  THEN Error("expect(received).not.toBe(expected) // Object.is equality")
  ELSE NoThrow

jest_toMatch(received, pattern) ==
  IF received.t # "string" THEN Error("Matcher error: received value must be a string")
  ELSE IF RegExpTest(pattern, received) THEN NoThrow
  ELSE Error("expect(received).toMatch(expected)")

jest_notToMatch(received, pattern) ==
  IF received.t # "string" THEN Error("Matcher error: received value must be a string")
  ELSE IF RegExpTest(pattern, received) THEN Error("expect(received).not.toMatch(expected)")
  ELSE NoThrow

jest_toBeDefined(received) ==
  IF received = Undefined THEN Error("expect(received).toBeDefined()") ELSE NoThrow

\* toHaveProperty with a path of one key: the key is found when received[key] is
\* not undefined or when (key in received) for an object
jest_toHaveProperty(received, key) ==
  IF IsNullish(received)
  THEN Error("Matcher error: received value must not be null nor undefined")
  ELSE IF \/ GetProp(received, key) # Undefined
          \/ ~IsPrimitive(received) /\ HasProperty(received, key)
  THEN NoThrow
  ELSE Error("expect(received).toHaveProperty(path)")

jest_toBeTruthy(received) ==
  IF IsTruthy(received) THEN NoThrow ELSE Error("expect(received).toBeTruthy()")

\* toContain on an array of strings
jest_toContain(received, item) ==
  IF item \in Range(received) THEN NoThrow
  ELSE Error("expect(received).toContain(expected) // indexOf")

jest_notToContain(received, item) ==
  IF item \in Range(received)
  THEN Error("expect(received).not.toContain(expected) // indexOf")
  ELSE NoThrow

jest_notToThrow(received) ==
  IF received.t # "function" THEN Error("Matcher error: received value must be a function")
  ELSE IF Call(received).threw THEN Error("expect(received).not.toThrow()")
  ELSE NoThrow

jest_notToBeNull(received) ==
  IF received = Null THEN Error("expect(received).not.toBeNull()") ELSE NoThrow

jest_notToBeUndefined(received) ==
  IF received = Undefined THEN Error("expect(received).not.toBeUndefined()") ELSE NoThrow

\* expect(received).toHaveProperty(key) for each key in turn
jest_HaveProperties(received, keys) ==
  FirstThrow([i \in 1..Len(keys) |-> jest_toHaveProperty(received, keys[i])])

\* /^(\^|~|>=)?(\d+\.)?(\d+\.)?(\*|\d+)(-[a-z0-9.]+)?$/i accepts s: after the
\* optional range prefix come one to three dot-separated parts, all of digits
\* but the last, which may be a star, and then, optionally, a dash and a run of
\* letters, digits and dots
validSemverRange(s) ==
  LET rest == IF Len(s) >= 2 /\ SubSeq(s, 1, 2) = ">=" THEN SubSeq(s, 3, Len(s))
              ELSE IF s # "" /\ CharAt(s, 1) \in {"^", "~"} THEN SubSeq(s, 2, Len(s))
              ELSE s
      dashed == \E i \in 1..Len(rest) : CharAt(rest, i) = "-"
      dash == IF dashed
              THEN CHOOSE i \in 1..Len(rest) :
                     CharAt(rest, i) = "-" /\ \A j \in 1..(i - 1) : CharAt(rest, j) # "-"
              ELSE Len(rest) + 1
      head == SubSeq(rest, 1, dash - 1)
      tail == SubSeq(rest, dash + 1, Len(rest))
      parts == Split(head, ".")
      digits(part) == part # "" /\ Chars(part) \subseteq DigitSet
  IN /\ Len(parts) <= 3
     /\ \A i \in 1..(Len(parts) - 1) : digits(parts[i])
     /\ parts[Len(parts)] = "*" \/ digits(parts[Len(parts)])
     /\ dashed => /\ tail # ""
                  /\ Chars(tail) \subseteq LowerSet \cup UpperSet \cup DigitSet \cup {"."}

\* /^~?4\.9\.\d+$/ accepts s
compatibleTypeScript(s) ==
  LET rest == IF s # "" /\ CharAt(s, 1) = "~" THEN SubSeq(s, 2, Len(s)) ELSE s
  IN /\ Len(rest) > 4
     /\ SubSeq(rest, 1, 4) = "4.9."
     /\ Chars(SubSeq(rest, 5, Len(rest))) \subseteq DigitSet

\* expect(version).toMatch(pattern) for a pattern given by what it accepts
jest_toMatchAccepted(received, accepted) ==
  IF received.t # "string" THEN Error("Matcher error: received value must be a string")
  ELSE IF accepted THEN NoThrow
  ELSE Error("expect(received).toMatch(expected)")

\* the values of { ...a, ...b } in the order of its keys: the keys of a, then
\* those of b that a lacks, a key of both taking the value of b (a spread of
\* undefined or null adds nothing)
SpreadValues(a, b) ==
  LET aKeys == ObjectKeys(a)
      bKeys == ObjectKeys(b)
      keys == aKeys \o SelectSeq(bKeys, LAMBDA k : k \notin Range(aKeys))
  IN [i \in 1..Len(keys) |->
        IF keys[i] \in Range(bKeys) THEN GetProp(b, keys[i]) ELSE GetProp(a, keys[i])]

\* Each describe block is the sequence of the completions of its tests, in
\* source order, on the parsed manifest pj read from file.

\* describe 'Structure and Validity'
jest_StructureAndValidity(pj, file) ==
  <<jest_notToThrow(Fn(0, FirstThrow(<<ReadFileSync(file), JSONparse(file)>>))),
    FirstThrow(<<ReadProp(pj, "name"),
                 jest_toBe(GetProp(pj, "name"), Str("@coral-xyz/backpack-web")),
                 jest_toMatch(GetProp(pj, "name"), scopedNamePattern)>>),
    FirstThrow(<<ReadProp(pj, "version"),
                 jest_toBe(GetProp(pj, "version"), Str("1.0.0")),
                 jest_toMatch(GetProp(pj, "version"), versionPattern)>>),
    FirstThrow(<<ReadProp(pj, "private"), jest_toBe(GetProp(pj, "private"), Bool(TRUE))>>),
    jest_HaveProperties(pj, <<"name", "version", "scripts", "dependencies",
                              "devDependencies">>)>>

\* describe 'Scripts'
jest_Scripts(pj) ==
  LET scripts == GetProp(pj, "scripts")
      commands == ObjectValues(scripts)
  IN <<FirstThrow(<<ReadProp(pj, "scripts"),
                    jest_toBeDefined(scripts),
                    jest_HaveProperties(scripts, <<"dev", "build", "start", "lint",
                                                   "lint:fix">>)>>),
       FirstThrow(<<ReadProp(pj, "scripts"), ReadProp(scripts, "dev"),
                    jest_toBe(GetProp(scripts, "dev"), Str("next dev")),
                    jest_toBe(GetProp(scripts, "build"), Str("next build")),
                    jest_toBe(GetProp(scripts, "start"), Str("next start"))>>),
       FirstThrow(<<ReadProp(pj, "scripts"), ReadProp(scripts, "lint"),
                    jest_toBe(GetProp(scripts, "lint"), Str("next lint")),
                    jest_toBe(GetProp(scripts, "lint:fix"), Str("next lint --fix"))>>),
       FirstThrow(<<ReadProp(pj, "scripts"), ObjectKeysCall(scripts),
                    FirstThrow([i \in 1..Len(commands) |->
                      FirstThrow(<<jest_toBeTruthy(commands[i]),
                                   jest_toBe(Str(TypeOf(commands[i])), Str("string")),
                                   jest_notToBe(Str(TrimEnd(TrimStart(TextOf(commands[i])))),
                                                Str(""))>>)])>>)>>

\* describe 'Dependencies'
jest_Dependencies(pj) ==
  LET deps == GetProp(pj, "dependencies")
      devDeps == GetProp(pj, "devDependencies")
      nextVersion == GetProp(deps, "next")
      parts == CleanVersionParts(nextVersion)
      major == Component(parts, 1)
      minor == Component(parts, 2)
      patch == Component(parts, 3)
      versions == SpreadValues(deps, devDeps)
      depKeys == ObjectKeys(OrEmptyObject(deps))
      devDepKeys == ObjectKeys(OrEmptyObject(devDeps))
      duplicates == SelectSeq(depKeys, LAMBDA dep : dep \in Range(devDepKeys))
  IN <<FirstThrow(<<ReadProp(pj, "dependencies"),
                    jest_toBeDefined(deps),
                    jest_HaveProperties(deps, <<"next", "react", "react-dom">>)>>),
       FirstThrow(<<ReadProp(pj, "dependencies"), ReadProp(deps, "next"),
                    jest_toBeDefined(nextVersion),
                    CallStringMethod(nextVersion, "replace", "nextVersion"),
                    jest_toBeGreaterThanOrEqual(major, Num(15)),
                    IF StrictEquals(major, Num(15))
                    THEN FirstThrow(<<
                           jest_toBeGreaterThanOrEqual(minor, Num(5)),
                           IF StrictEquals(minor, Num(5))
                           THEN jest_toBeGreaterThanOrEqual(patch, Num(10)) ELSE NoThrow>>)
                    ELSE NoThrow>>),
       FirstThrow(<<ReadProp(pj, "dependencies"), ReadProp(deps, "react"),
                    jest_toBe(GetProp(deps, "react"), Str("18.2.0")),
                    jest_toBe(GetProp(deps, "react-dom"), Str("18.2.0"))>>),
       FirstThrow(<<ReadProp(pj, "dependencies"),
                    FirstThrow([i \in 1..Len(versions) |->
                      FirstThrow(<<jest_toBeTruthy(versions[i]),
                                   jest_toBe(Str(TypeOf(versions[i])), Str("string")),
                                   jest_toMatchAccepted(versions[i],
                                     validSemverRange(TextOf(versions[i])))>>)])>>),
       FirstThrow(<<ReadProp(pj, "dependencies"),
                    jest_toEqual(Arr(0, [i \in 1..Len(duplicates) |-> Str(duplicates[i])]),
                                 Arr(-1, <<>>))>>)>>

\* describe 'DevDependencies'
jest_DevDependencies(pj) ==
  LET devDeps == GetProp(pj, "devDependencies")
      tsVersion == GetProp(devDeps, "typescript")
  IN <<FirstThrow(<<ReadProp(pj, "devDependencies"),
                    jest_toBeDefined(devDeps),
                    jest_HaveProperties(devDeps, <<"@types/react", "@types/react-dom",
                                                   "@types/node", "typescript">>)>>),
       FirstThrow(<<ReadProp(pj, "devDependencies"),
                    jest_HaveProperties(devDeps,
                      <<"tailwindcss", "postcss", "autoprefixer",
                        "@tailwindcss/aspect-ratio", "@tailwindcss/forms",
                        "@tailwindcss/typography">>)>>),
       FirstThrow(<<ReadProp(pj, "devDependencies"),
                    jest_HaveProperties(devDeps,
                      <<"eslint", "eslint-config-next", "eslint-config-prettier",
                        "prettier", "prettier-plugin-tailwindcss">>)>>),
       FirstThrow(<<ReadProp(pj, "devDependencies"), ReadProp(devDeps, "typescript"),
                    jest_toBeDefined(tsVersion),
                    jest_toMatchAccepted(tsVersion, compatibleTypeScript(TextOf(tsVersion)))>>)>>

\* s.replace(/^[\^~]/, '').split('.')[0] once s is known to be a string
MajorText(val) == IF val.t = "string" THEN Split(StripRangePrefix(val.v), ".")[1] ELSE ""

\* describe 'Dependency Version Consistency'
jest_DependencyVersionConsistency(pj) ==
  LET deps == GetProp(pj, "dependencies")
      devDeps == GetProp(pj, "devDependencies")
      typesReact == GetProp(devDeps, "@types/react")
      typesReactDom == GetProp(devDeps, "@types/react-dom")
  IN <<FirstThrow(<<ReadProp(pj, "dependencies"), ReadProp(deps, "react"),
                    jest_toBe(GetProp(deps, "react"), GetProp(deps, "react-dom"))>>),
       FirstThrow(<<ReadProp(pj, "devDependencies"), ReadProp(devDeps, "@types/react"),
                    CallStringMethod(typesReact, "replace", "typesReact"),
                    CallStringMethod(typesReactDom, "replace", "typesReactDom"),
                    jest_toBe(Str(MajorText(typesReact)), Str(MajorText(typesReactDom)))>>)>>

\* describe 'Security and Vulnerability Fixes'
jest_SecurityAndVulnerabilityFixes(pj) ==
  LET deps == GetProp(pj, "dependencies")
      nextVersion == GetProp(deps, "next")
      parts == CleanVersionParts(nextVersion)
  IN <<FirstThrow(<<ReadProp(pj, "dependencies"), ReadProp(deps, "next"),
                    CallStringMethod(nextVersion, "replace", "nextVersion"),
                    jest_toBe(Bool(isVulnerable(Component(parts, 1), Component(parts, 2),
                                                Component(parts, 3))), Bool(FALSE))>>),
       FirstThrow(<<ReadProp(pj, "dependencies"), ReadProp(deps, "next"),
                    jest_toMatch(nextVersion, rangePrefixPattern)>>)>>

validFields ==
  <<"name", "version", "private", "scripts", "dependencies", "devDependencies",
    "peerDependencies", "optionalDependencies", "engines", "repository", "author",
    "license", "keywords", "description", "main", "module", "types", "exports",
    "files", "browserslist">>

\* expect(Object.keys(mapping).length).toBeGreaterThan(0) when mapping is truthy
jest_notEmptyWhenPresent(mapping) ==
  IF IsTruthy(mapping) THEN jest_toBeGreaterThan(Num(Len(ObjectKeys(mapping))), Num(0))
  ELSE NoThrow

\* describe 'Package Structure Integrity'
jest_PackageStructureIntegrity(pj, file) ==
  LET packageFields == ObjectKeys(pj)
  IN <<FirstThrow(<<ObjectKeysCall(pj),
                    FirstThrow([i \in 1..Len(packageFields) |->
                                  jest_toContain(validFields, packageFields[i])])>>),
       FirstThrow(<<ReadFileSync(file),
                    jest_notToThrow(Fn(0, JSONparse(file)))>>),
       FirstThrow(<<ReadProp(pj, "dependencies"),
                    jest_notEmptyWhenPresent(GetProp(pj, "dependencies")),
                    jest_notEmptyWhenPresent(GetProp(pj, "devDependencies"))>>)>>

\* describe 'Workspace Compatibility'
jest_WorkspaceCompatibility(pj) ==
  <<FirstThrow(<<ReadProp(pj, "name"),
                 jest_toMatch(GetProp(pj, "name"), workspaceScopePattern)>>),
    FirstThrow(<<ReadProp(pj, "private"), jest_toBe(GetProp(pj, "private"), Bool(TRUE))>>)>>

optionalFields == <<"description", "repository", "keywords", "author", "license">>

jest_testRelatedPackages == <<"jest", "mocha", "chai", "jasmine", "@testing-library">>

\* the three assertions made on each version of a mapping
jest_notNullish(versions) ==
  FirstThrow([i \in 1..Len(versions) |->
    FirstThrow(<<jest_notToBeNull(versions[i]),
                 jest_notToBeUndefined(versions[i]),
                 jest_notToBe(versions[i], Str(""))>>)])

\* describe 'Edge Cases and Boundary Conditions'
jest_EdgeCasesAndBoundaryConditions(pj) ==
  LET scripts == GetProp(pj, "scripts")
      commands == ObjectValues(scripts)
      name == GetProp(pj, "name")
      prodDeps == ObjectKeys(OrEmptyObject(GetProp(pj, "dependencies")))
  IN <<FirstThrow([i \in 1..Len(optionalFields) |->
         FirstThrow(<<ReadProp(pj, optionalFields[i]),
                      IF IsTruthy(GetProp(pj, optionalFields[i]))
                      THEN jest_toBeTruthy(GetProp(pj, optionalFields[i]))
                      ELSE NoThrow>>)]),
       FirstThrow(<<ReadProp(pj, "dependencies"),
                    jest_notNullish(ObjectValues(OrEmptyObject(GetProp(pj, "dependencies")))),
                    jest_notNullish(ObjectValues(OrEmptyObject(GetProp(pj, "devDependencies"))))>>),
       FirstThrow(<<ReadProp(pj, "scripts"), ObjectKeysCall(scripts),
                    FirstThrow([i \in 1..Len(commands) |->
                                  jest_toBe(Str(TypeOf(commands[i])), Str("string"))])>>),
       FirstThrow(<<ReadProp(pj, "name"),
                    CallStringMethod(name, "toLowerCase", "packageJson.name"),
                    jest_toBe(name, Str(ToLowerCase(TextOf(name))))>>),
       FirstThrow(<<ReadProp(pj, "dependencies"),
                    FirstThrow([i \in 1..Len(jest_testRelatedPackages) |->
                      jest_toBe(Bool(\E dep \in Range(prodDeps) :
                                       StringIncludes(dep, jest_testRelatedPackages[i])),
                                Bool(FALSE))])>>)>>

\* describe 'Regression Tests'
jest_RegressionTests(pj) ==
  LET scripts == GetProp(pj, "scripts")
      deps == GetProp(pj, "dependencies")
      devDeps == GetProp(pj, "devDependencies")
      nextVersion == GetProp(deps, "next")
      parts == CleanVersionParts(nextVersion)
  IN <<FirstThrow(<<ReadProp(pj, "scripts"), ReadProp(scripts, "build"),
                    jest_toBeDefined(GetProp(scripts, "build")),
                    jest_toBeDefined(GetProp(scripts, "start"))>>),
       FirstThrow(<<ReadProp(pj, "dependencies"), ReadProp(deps, "next"),
                    CallStringMethod(nextVersion, "replace", "nextVersion"),
                    jest_toBe(IF parts = <<>> THEN NaN ELSE parseInt(parts[1]), Num(15))>>),
       FirstThrow(<<ReadProp(pj, "devDependencies"),
                    jest_HaveProperties(devDeps, <<"@tailwindcss/aspect-ratio",
                                                   "@tailwindcss/forms",
                                                   "@tailwindcss/typography">>)>>),
       FirstThrow(<<ReadProp(pj, "devDependencies"),
                    jest_HaveProperties(devDeps, <<"@headlessui/react",
                                                   "@heroicons/react">>)>>)>>

devOnlyPackages == <<"nodemon", "ts-node", "webpack-dev-server">>

\* describe 'Negative Test Cases'
jest_NegativeTestCases(pj) ==
  LET name == GetProp(pj, "name")
      deps == GetProp(pj, "dependencies")
      devDeps == GetProp(pj, "devDependencies")
      prodDeps == ObjectKeys(OrEmptyObject(deps))
      reactVersion == GetProp(deps, "react")
      reactDomVersion == GetProp(deps, "react-dom")
  IN <<FirstThrow(<<ReadProp(pj, "name"),
                    jest_notToMatch(name, leadingDotPattern),
                    jest_notToMatch(name, upperCasePattern),
                    jest_notToMatch(name, whiteSpacePattern)>>),
       FirstThrow(<<ReadProp(pj, "dependencies"), ReadProp(deps, "next"),
                    ReadProp(devDeps, "eslint-config-next"),
                    jest_toBeDefined(GetProp(deps, "next")),
                    jest_toBeDefined(GetProp(devDeps, "eslint-config-next"))>>),
       FirstThrow(<<ReadProp(pj, "dependencies"),
                    FirstThrow([i \in 1..Len(devOnlyPackages) |->
                                  jest_notToContain(prodDeps, devOnlyPackages[i])])>>),
       FirstThrow(<<ReadProp(pj, "dependencies"), ReadProp(deps, "react"),
                    CallStringMethod(reactVersion, "replace", "reactVersion"),
                    CallStringMethod(reactDomVersion, "replace", "reactDomVersion"),
                    jest_toBe(Str(IF reactVersion.t = "string"
                                  THEN StripRangePrefix(reactVersion.v) ELSE ""),
                              Str(IF reactDomVersion.t = "string"
                                  THEN StripRangePrefix(reactDomVersion.v) ELSE ""))>>)>>

\* beforeAll: the manifest is read and parsed once for the suite; when it throws
\* every test of the suite fails
jest_beforeAll(file) == FirstThrow(<<ReadFileSync(file), JSONparse(file)>>)

\* the completions of the tests of the suite, in source order
JestSuite(file) ==
  LET pj == file.value
  IN jest_StructureAndValidity(pj, file) \o jest_Scripts(pj) \o jest_Dependencies(pj)
       \o jest_DevDependencies(pj) \o jest_DependencyVersionConsistency(pj)
       \o jest_SecurityAndVulnerabilityFixes(pj)
       \o jest_PackageStructureIntegrity(pj, file) \o jest_WorkspaceCompatibility(pj)
       \o jest_EdgeCasesAndBoundaryConditions(pj) \o jest_RegressionTests(pj)
       \o jest_NegativeTestCases(pj)

\* the suite reports no failing test
JestPasses(file) ==
  /\ ~jest_beforeAll(file).threw
  /\ \A i \in 1..Len(JestSuite(file)) : ~JestSuite(file)[i].threw

-----------------------------------------------------------------------------
(* The checks as steps: one check is run on the manifest drawn             *)

\* the script's two checks of the Next.js version and the Jest suite's, on a
\* version text
Run_case10_onText ==
  /\ argument.kind = "nextVersion"
  /\ Completes("case10 on text", case10(wrapped))

Run_case17 ==
  /\ argument.kind \in {"version", "nextVersion"}
  /\ Completes("case17", case17(wrapped))

Run_jest_notVulnerable ==
  /\ argument.kind \in {"version", "nextVersion"}
  /\ Completes("jest notVulnerable", jest_SecurityAndVulnerabilityFixes(wrapped)[1])

CheckNext ==
  \/ Run_case10
  \/ Run_maintainsSecurityFixVersion
  \/ Run_case19
  \/ Run_case12
  \/ Run_noDuplicatesBySet
  \/ Run_noDuplicateKeys
  \/ Run_case10_onText
  \/ Run_case17
  \/ Run_jest_notVulnerable

CheckSpec == CheckInit /\ [][CheckNext]_vars

-----------------------------------------------------------------------------
(* Properties of the checks                                                *)

\* the i-th component of a version, a missing one counting as 0
ComponentOrZero(components, i) == IF i <= Len(components) THEN components[i] ELSE 0

\* components is at or above major.minor.patch in semantic-version order
AtOrAbove(components, major, minor, patch) ==
  LET a == ComponentOrZero(components, 1)
      b == ComponentOrZero(components, 2)
      c == ComponentOrZero(components, 3)
  IN \/ a > major
     \/ a = major /\ b > minor
     \/ a = major /\ b = minor /\ c >= patch

\* C11: for every next string made of an optional ^ or ~ and one, two or three
\* dot-separated components, the script's step-wise check passes if and only if
\* the version is at or above 15.5.10.
C11_StepwiseCheckIsAtLeast ==
  called = "case10" =>
    (~completion.threw <=> AtOrAbove(argument.components, 15, 5, 10))

\* C12: for every triple (major, minor, patch) of non-negative integers, the
\* regression check that compares major*10000 + minor*100 + patch with 150510
\* passes if and only if the version is at or above 15.5.10 in semantic-version
\* order.
C12_EncodingIsSemverOrder ==
  (called = "maintainsSecurityFixVersion" /\ Len(argument.components) = 3) =>
    (~completion.threw <=> AtOrAbove(argument.components, 15, 5, 10))

\* C13: the script's React version-consistency check fails for every manifest
\* whose dependencies.react and dependencies['react-dom'] strings differ, and
\* passes whenever the two strings are identical.
C13_ReactVersionsConsistent ==
  called = "case19" => (completion.threw <=> argument.react # argument.reactDom)

C13_Witness ==
  /\ called = "case19"
  /\ argument.react = "18.2.0"
  /\ argument.reactDom = "18.1.0"
  /\ completion.threw
  /\ completion.message = "Expected \"18.1.0\", but got \"18.2.0\""

\* the keys present in both mappings of a draw, a missing mapping being empty
SharedKeys(draw) == Range(draw.dependencies.keys) \cap Range(draw.devDependencies.keys)

\* C14: the duplicate-dependency check fails if and only if some key is present
\* in both dependencies and devDependencies, a missing mapping counting as
\* empty, in the filter/includes formulation of the script and in the
\* Set-intersection formulation alike.
C14_DuplicateCheck ==
  called \in {"case12", "noDuplicatesBySet"} =>
    (completion.threw <=> SharedKeys(argument) # {})

\* C15: for every manifest file, the script exits 0 exactly when the Jest suite
\* reports no failing test.
C15_ScriptAgreesWithJest ==
  pc \in {"exited", "crashed"} => (exitCode = <<0>> <=> JestPasses(fileSystem))

-----------------------------------------------------------------------------
(* Properties of the manifest, the failures list and the output of a run   *)

\* C16: in a run of the script the manifest file is read exactly once, before
\* any case runs, and nothing modifies the parsed manifest: from the load to the
\* exit it is the value the file denotes.
C16_ManifestReadOnce ==
  /\ pc = "load" => (reads = 0 /\ executed = <<>>)
  /\ executed # <<>> => Loaded
  /\ Loaded => /\ reads = 1
               /\ packageJsonContent = fileSystem
               /\ packageJson = fileSystem.value
  /\ pc = "crashed" => reads = 1

C16_Witness ==
  /\ pc = "exited"
  /\ reads = 1
  /\ executed = CaseIds
  /\ Throws(1) = FALSE
  /\ failCount > 0
  /\ packageJson = fileSystem.value

\* C17: a matcher call has no effect other than its completion: it leaves
\* passCount, failCount, the failures list and the wrapped value as they were.
\* The counters and the failures list change only in a step of test(), which
\* executes a case.
C17_MatchersOnlyThrow ==
  [][/\ called' # called =>
          /\ passCount' = passCount
          /\ failCount' = failCount
          /\ failures' = failures
          /\ wrapped' = wrapped
          /\ argument' = argument
     /\ (passCount' # passCount \/ failCount' # failCount \/ failures' # failures) =>
          /\ pc = "run"
          /\ Len(executed') = Len(executed) + 1]_vars

C17_Witness ==
  /\ called = "toHaveProperty"
  /\ wrapped = Null
  /\ completion.threw
  /\ passCount = 0
  /\ failCount = 0
  /\ failures = <<>>

\* the description of the case numbered id
DescriptionOf(id) == (CHOOSE st \in Range(Script) : st.kind = "test" /\ st.id = id).text

\* the executed cases that threw, in the order of their execution
FailedCases == SelectSeq(executed, Throws)

\* the texts written to a stream, in order
Written(stream) ==
  LET lines == SelectSeq(output, LAMBDA line : line.stream = stream)
  IN [i \in 1..Len(lines) |-> lines[i].text]

\* the number of lines of the output that are the text
Occurrences(text) == Cardinality({i \in 1..Len(output) : output[i].text = text})

\* C18: the failures list holds one (description, error message) entry for each
\* failed case, in the order in which the cases were executed, and it is printed
\* at the exit, after the line 'Failures:', if and only if failCount > 0.
C18_FailuresList ==
  /\ Loaded =>
       LET failed == FailedCases
       IN failures = [i \in 1..Len(failed) |->
                        [description |-> DescriptionOf(failed[i]),
                         error |-> RunProcedure(failed[i], packageJson,
                                                packageJsonContent).message]]
  /\ pc # "exited" => Occurrences("\nFailures:") = 0
  /\ pc = "exited" =>
       /\ Occurrences("\nFailures:") = (IF failCount > 0 THEN 1 ELSE 0)
       /\ failCount > 0 =>
            SubSeq(Written("stdout"), Len(Written("stdout")) - Len(failures),
                   Len(Written("stdout")))
              = <<"\nFailures:">>
                  \o [i \in 1..Len(failures) |->
                        "  - " \o failures[i].description \o ": " \o failures[i].error]

C18_Witness ==
  /\ pc = "exited"
  /\ Len(failures) = 2
  /\ failures[1].description = "should be marked as private"
  /\ failures[2].description = "should be compatible with monorepo"
  /\ Occurrences("\nFailures:") = 1

\* the lines of the summary, for the counters as they are
SummaryLines ==
  <<"\n=== Test Summary ===",
    "(U+2713) Passed: " \o NumberToString(passCount),
    "(U+2717) Failed: " \o NumberToString(failCount),
    "Total: " \o NumberToString(Len(executed))>>

\* C19: the summary (passed count, failed count, total) is printed exactly once,
\* only after every case of the script has been executed and before the process
\* exits, and the printed total is passCount + failCount, the number of cases
\* executed.
C19_SummaryOnce ==
  /\ ~Finished => Occurrences("\n=== Test Summary ===") = 0
  /\ Finished =>
       /\ Occurrences("\n=== Test Summary ===") = 1
       /\ executed = CaseIds
       /\ passCount + failCount = Len(executed)
       /\ \A i \in 1..4 : Occurrences(SummaryLines[i]) = 1
  /\ pc = "exit" =>
       /\ exitCode = <<>>
       /\ SubSeq(Written("stdout"), Len(Written("stdout")) - 3, Len(Written("stdout")))
            = SummaryLines

C19_Witness ==
  /\ pc = "exited"
  /\ failCount = 2
  /\ Occurrences("Total: 28") = 1
  /\ Occurrences("(U+2713) Passed: 26") = 1

\* what is printed for the case numbered id: one line on stdout when it passes,
\* and when it fails two lines on stderr, the second with the error message
CaseOutput(id) ==
  LET error == RunProcedure(id, packageJson, packageJsonContent)
  IN IF error.threw
     THEN <<[stream |-> "stderr", text |-> "(U+2717) " \o DescriptionOf(id)],
            [stream |-> "stderr", text |-> "  " \o error.message]>>
     ELSE <<[stream |-> "stdout", text |-> "(U+2713) " \o DescriptionOf(id)]>>

\* the output of the first n statements of the script
RECURSIVE OutputOf(_)
OutputOf(n) ==
  IF n = 0 THEN <<>>
  ELSE OutputOf(n - 1)
         \o (IF Script[n].kind = "test" THEN CaseOutput(Script[n].id)
             ELSE <<[stream |-> "stdout", text |-> Script[n].text]>>)

\* C20 as amended: for each executed case the runner prints a check-mark line
\* with the description when the case passes, and when it fails a ballot line
\* with the description followed by a second, indented line with the error
\* message; nothing else is printed between the section headings.
C20_OutcomeLines ==
  /\ pc = "run" => output = OutputOf(stmt - 1)
  /\ Finished => SubSeq(output, 1, Len(OutputOf(Len(Script)))) = OutputOf(Len(Script))

C20_Witness ==
  /\ pc = "run"
  /\ stmt = 6
  /\ Len(output) = 6
  /\ Throws(2)
  /\ output[4] = [stream |-> "stderr", text |-> "(U+2717) should have a valid name field"]
  /\ output[5].stream = "stderr"
  /\ output[6] = [stream |-> "stdout", text |-> "(U+2713) should have a valid version field"]

\* the console.log statements among the first n statements of the script
LogsAmong(n) == Cardinality({i \in 1..n : Script[i].kind = "log"})

\* C20 as stated: for each executed case the runner prints exactly one line.
C20_OneLinePerCase ==
  pc = "run" => Len(output) = LogsAmong(stmt - 1) + Len(executed)

-----------------------------------------------------------------------------
(* Termination of a run                                                     *)

\* lines 15-26 seen from the caller: a call of test() at statement stmt returns
\* and control reaches the statement after it
testReturns ==
  /\ pc = "run"
  /\ stmt <= Len(Script)
  /\ Script[stmt].kind = "test"
  /\ stmt' = stmt + 1

\* The script is one synchronous sequence of statements on one thread (there
\* is no callback, timer or promise in it), so a statement that can run does
\* run: weak fairness of every step.  A step that changes stmt at a test
\* statement is a step of test.
FairSpec ==
  /\ Spec
  /\ WF_vars(LoadManifest \/ LoadFails)
  /\ WF_vars(LogStatement)
  /\ WF_stmt(testReturns)
  /\ WF_vars(Summary)
  /\ WF_vars(ExitFailure \/ ExitSuccess)

\* the statements of the script that remain to be executed
Remaining == Len(Script) + 1 - stmt

\* C21: once the manifest has loaded, every run of the script terminates: no
\* step of a case goes back (each test() call moves to the statement after it,
\* so no case is retried and there is no loop over the cases), no uncaught
\* error ends the run, and the run eventually reaches one of the two
\* process.exit calls, which sets the exit code.
C21_Terminates ==
  /\ [][pc = "run" /\ pc' = "run" => Remaining' = Remaining - 1]_vars
  /\ [](Loaded => uncaught = NoThrow)
  /\ Loaded ~> (pc = "exited" /\ exitCode \in {<<0>>, <<1>>})

C21_Witness ==
  /\ pc = "exited"
  /\ Len(executed) = Len(CaseIds)
  /\ failCount >= 1
  /\ passCount >= 1
  /\ exitCode = <<1>>

-----------------------------------------------------------------------------
(* Order of execution                                                       *)

\* the outcome line of a case is in the output: its description after one of
\* the two marks, once
OutcomePrinted(description) ==
  Occurrences(CheckMark \o " " \o description)
    + Occurrences(BallotX \o " " \o description) = 1

\* C22: test(description, fn) runs fn exactly once, when the test statement is
\* executed: a step at a test statement calls the procedure of that case and of
\* no other, the case is the next one in source order, and its outcome line is
\* in the output when the step is over, so before the next case starts; the
\* cases called so far are the first cases of the script, each called once,
\* and each has its outcome line printed.
C22_SourceOrder ==
  /\ [][(pc = "run" /\ stmt <= Len(Script) /\ stmt' # stmt /\ Script[stmt].kind = "test") =>
          /\ executed' = Append(executed, Script[stmt].id)
          /\ Script[stmt].id = CaseIds[Len(executed) + 1]
          /\ Len(output') > Len(output)
          /\ output'[Len(output) + 1].text
               \in {CheckMark \o " " \o Script[stmt].text,
                    BallotX \o " " \o Script[stmt].text}]_vars
  /\ [][(pc = "run" /\ stmt <= Len(Script) /\ Script[stmt].kind = "log") =>
          executed' = executed]_vars
  /\ [](Loaded =>
          /\ \A i, j \in 1..Len(executed) : executed[i] = executed[j] => i = j
          /\ \A i \in 1..Len(executed) :
               /\ executed[i] = CaseIds[i]
               /\ OutcomePrinted(DescriptionOf(executed[i]))
          /\ \A i \in (Len(executed) + 1)..Len(CaseIds) :
               Occurrences(CheckMark \o " " \o DescriptionOf(CaseIds[i]))
                 + Occurrences(BallotX \o " " \o DescriptionOf(CaseIds[i])) = 0)

C22_Witness ==
  /\ pc = "run"
  /\ stmt <= Len(Script)
  /\ Script[stmt].id = 5
  /\ executed = <<1, 2, 3, 4>>
  /\ Occurrences(BallotX \o " should be marked as private") = 1
  /\ Occurrences(CheckMark \o " should have a valid name field") = 1
  /\ Occurrences(CheckMark \o " should have all required top-level fields") = 0

-----------------------------------------------------------------------------
(* Duplicate keys in the manifest text                                      *)

\* some key is written twice in the object of the text
HasDuplicateKey(members) ==
  \E i, j \in 1..Len(members) : i # j /\ members[i].key = members[j].key

\* C23: the test 'should not have duplicate keys' fails whenever the manifest
\* text contains the same key twice in one object, and passes when no key is
\* duplicated.
C23_DuplicateKeysDetected ==
  called = "noDuplicateKeys" =>
    (completion.threw <=> HasDuplicateKey(argument.members))

-----------------------------------------------------------------------------
(* The counters, step by step                                               *)

\* C24: at every point of a run passCount + failCount is the number of cases
\* executed so far and failures.length is failCount; a step that executes a
\* case adds exactly 1 to exactly one of the two counters, a step that executes
\* none changes neither, and no step makes a counter smaller.
C24_CounterSteps ==
  /\ [](/\ passCount + failCount = Len(executed)
        /\ Len(failures) = failCount)
  /\ [][/\ passCount' >= passCount
        /\ failCount' >= failCount
        /\ Len(executed') = Len(executed) + 1 =>
             \/ passCount' = passCount + 1 /\ failCount' = failCount
             \/ passCount' = passCount /\ failCount' = failCount + 1
        /\ executed' = executed =>
             passCount' = passCount /\ failCount' = failCount]_vars

C24_Witness ==
  /\ pc = "run"
  /\ Len(executed) = 5
  /\ passCount = 3
  /\ failCount = 2
  /\ Len(failures) = 2

-----------------------------------------------------------------------------
(* A case with several assertions                                           *)

\* lines 145-151: the seven assertions of 'should define all necessary npm
\* scripts', each evaluated on its own
scriptsAssertions(pj) ==
  LET scripts == GetProp(pj, "scripts")
  IN <<toBeDefined(scripts)>>
       \o [i \in 1..6 |->
             toHaveProperty(scripts, <<"dev", "build", "start", "lint", "lint:fix", "test">>[i])]

\* the assertions of that case which the loaded manifest violates, in source
\* order
ViolatedAssertions == SelectSeq(scriptsAssertions(packageJson), LAMBDA c : c.threw)

\* the entries of the failures list for the case with the description
FailuresOf(description) == SelectSeq(failures, LAMBDA f : f.description = description)

\* C25: a case with several assertions is counted once.  For the case 'should
\* define all necessary npm scripts' on a manifest that is an object: when the
\* case is executed failCount grows by 1 if some assertion is violated, however
\* many are, and by 0 otherwise; the failures list has one entry for the case,
\* with the message of the first violated assertion; and the message of a
\* later violated assertion is not printed, the case having ended at the first.
C25_CountedOnce ==
  /\ [][(pc = "run" /\ packageJson.t = "object" /\ stmt <= Len(Script)
          /\ Script[stmt].id = 6 /\ stmt' # stmt) =>
          failCount' = failCount + (IF ViolatedAssertions = <<>> THEN 0 ELSE 1)]_vars
  /\ [](Loaded /\ packageJson.t = "object" /\ 6 \in Range(executed) =>
          LET violated == ViolatedAssertions
              entries == FailuresOf(DescriptionOf(6))
          IN /\ Len(entries) = (IF violated = <<>> THEN 0 ELSE 1)
             /\ violated # <<>> =>
                  /\ entries[1].error = violated[1].message
                  /\ Occurrences("  " \o violated[1].message) = 1
                  /\ \A i \in 2..Len(violated) :
                       violated[i].message # violated[1].message =>
                         Occurrences("  " \o violated[i].message) = 0)

C25_Witness ==
  /\ pc = "exited"
  /\ packageJson.t = "object"
  /\ Len(ViolatedAssertions) = 2
  /\ failures # <<>>
  /\ failures[1] = [description |-> "should define all necessary npm scripts",
                    error |-> "Expected object to have property build"]
  /\ Len(FailuresOf("should define all necessary npm scripts")) = 1
  /\ Occurrences("  Expected object to have property test") = 0

-----------------------------------------------------------------------------
(* The number of cases                                                      *)

\* the totals a summary could print other than 28
OtherTotals == (0..(2 * Len(Script))) \ {28}

\* C26: for every manifest file that can be read and parsed, whatever its
\* content, the script runs to its summary, the cases it executes are the 28
\* cases of the script, and the total it prints is 28, whichever cases fail.
C26_TwentyEightCases ==
  /\ Len(CaseIds) = 28
  /\ (fileSystem.exists /\ fileSystem.wellFormed) => pc # "crashed"
  /\ Finished =>
       /\ Len(executed) = 28
       /\ Occurrences("Total: 28") = 1
       /\ \A n \in OtherTotals : Occurrences("Total: " \o NumberToString(n)) = 0

C26_Witness ==
  /\ pc = "exited"
  /\ packageJson = Str("next")
  /\ failCount > 20
  /\ Occurrences("Total: 28") = 1

-----------------------------------------------------------------------------
(* Errors that no matcher raised                                            *)

\* the procedure of the case numbered id ends with a TypeError on the manifest
\* that was loaded
ThrowsTypeError(id) ==
  LET error == RunProcedure(id, packageJson, packageJsonContent)
  IN error.threw /\ error.name = "TypeError"

\* C27: an exception that no matcher raised, such as the TypeError of reading
\* packageJson.dependencies.next or packageJson.scripts.dev on a manifest
\* without the mapping, is caught by test() like an assertion failure: the
\* step of that case adds 1 to failCount and nothing to passCount, records the
\* description and the message in failures and leaves the run going; the
\* cases after it are executed, and the script exits with 1.
C27_TypeErrorCaught ==
  /\ [][(pc = "run" /\ stmt <= Len(Script) /\ Script[stmt].kind = "test" /\ stmt' # stmt
          /\ ThrowsTypeError(Script[stmt].id)) =>
          /\ failCount' = failCount + 1
          /\ passCount' = passCount
          /\ failures' = Append(failures,
               [description |-> Script[stmt].text,
                error |-> RunProcedure(Script[stmt].id, packageJson,
                                       packageJsonContent).message])
          /\ pc' = "run"
          /\ uncaught' = NoThrow
          /\ exitCode' = <<>>]_vars
  /\ []((pc = "exited" /\ \E id \in Range(executed) : ThrowsTypeError(id)) =>
          /\ executed = CaseIds
          /\ exitCode = <<1>>)

C27_Witness ==
  /\ pc = "exited"
  /\ GetProp(packageJson, "dependencies") = Undefined
  /\ GetProp(packageJson, "scripts") = Undefined
  /\ ThrowsTypeError(7)
  /\ ThrowsTypeError(10)
  /\ executed = CaseIds
  /\ passCount > 0
  /\ exitCode = <<1>>
  /\ \E i \in 1..Len(failures) :
       /\ failures[i].description = "should use Next.js 15.5.10 or higher to fix vulnerability"
       /\ failures[i].error = "Cannot read properties of undefined (reading 'next')"

-----------------------------------------------------------------------------
(* The two formulations of the vulnerability check                          *)

\* the boolean isVulnerable of line 232 for the next version of the manifest
VulnerableNext(manifest) ==
  LET parts == CleanVersionParts(GetProp(GetProp(manifest, "dependencies"), "next"))
  IN isVulnerable(Component(parts, 1), Component(parts, 2), Component(parts, 3))

-----------------------------------------------------------------------------
(* What an exit code of 0 says about next                                   *)

\* dependencies.next of the loaded manifest
NextOf(manifest) == GetProp(GetProp(manifest, "dependencies"), "next")

\* next starts with ^ or ~
HasRangePrefix(next) ==
  next.t = "string" /\ next.v # "" /\ CharAt(next.v, 1) \in {"^", "~"}

\* the components of the version of next as numbers: what follows the range
\* prefix, split at the dots; a part that is not a number counts as -1
NextComponents(next) ==
  LET parts == CleanVersionParts(next)
  IN [i \in 1..Len(parts) |->
        IF StringToNumber(parts[i]).t = "number" THEN StringToNumber(parts[i]).v ELSE -1]

\* C29: every manifest for which the script exits 0 has a next dependency that
\* starts with ^ or ~, whose major version is exactly 15 and whose version is
\* at or above 15.5.10; a manifest with next at major 16 or higher, or with an
\* exact (unprefixed) next version, makes the script exit 1.
C29_ExitZeroMeansPatchedNext15 ==
  pc = "exited" =>
    LET next == NextOf(packageJson)
        components == NextComponents(next)
    IN /\ exitCode = <<0>> =>
            /\ HasRangePrefix(next)
            /\ ComponentOrZero(components, 1) = 15
            /\ AtOrAbove(components, 15, 5, 10)
       /\ (next.t = "string" /\ (~HasRangePrefix(next) \/ ComponentOrZero(components, 1) >= 16)) =>
            exitCode = <<1>>

====
